---- MODULE Spec2Model ----
(***************************************************************************)
(* A model of slack-shell: the cache layer (internal/cache), the           *)
(* notification manager (internal/notification) and the shell model that   *)
(* drives them (internal/shell).                                           *)
(***************************************************************************)
EXTENDS Integers, Sequences, FiniteSets, TLC

(***************************************************************************)
(* Bounds and inputs                                                       *)
(***************************************************************************)

\* The clock runs from 0 to MaxTime (one unit is one millisecond).
MaxTime == 3

\* An unread counter counts up to MaxUnread.
MaxUnread == 2

\* The visual queue holds MaxItems items (VisualConfig.MaxItems).
MaxItems == 1

\* The largest VisualConfig.MaxItems the visual queue is run with on its own.
MaxQueue == 2

\* VisualConfig.DismissAfter, in units of the clock.
DismissAfter == 2

\* The messages the live channel holds when the view opens.
HistoryLen == 4

\* The last timestamp Slack issues in the live channel.
MaxTs == 5

\* The same, and the commands in flight at one time, where the realtime stream is
\* followed for longer.
MaxStreamTs == 6

StreamTasks == 1

\* The messages sent to the other channel.
MaxOther == 1

\* The page size of conversations.history the live view asks for (50 in the code).
PageLimit == 2

\* The commands of the live view in flight at one time.
MaxTasks == 2

\* tea.WindowSizeMsg.Height: the view shows Height - 6 lines of messages.
Height == 8

\* The longest compose buffer, and the longest one while a message is edited in the
\* live view.
MaxInput == 6

MaxEdit == 3

\* The candidates updateMentionCompletion stops at (10 in the code).
MentionLimit == 2

\* The TTL the cache is constructed with (TestUserCache_TTL: time.Millisecond).
TTL == 1

UserIDs == {"U1", "U2"}

Names == {"alice", "bob"}

\* The display and real names SetFull is called with.
DisplayNames == {"Al"}

RealNames == {"Alice L"}

\* The team id the caches are constructed with.
Teams == {"T1"}

\* team_id values a cache file can carry: this team, another one, or none (the field
\* is empty).
FileTeams == {"T1", "T2", ""}

VARIABLES
    store,      \* which cache store the behaviour drives: "users", "channels", "none"
    now,        \* the clock (time.Now)
    teamID,     \* UserCache.teamID / ChannelCache.teamID
    op,         \* the last operation: its name, and what the properties read of it
    ucData,     \* UserCache.data
    ucDirty,    \* UserCache.dirty
    ucFs,       \* the files users.json ("final") and users.json.tmp ("tmp")
    ucPc,       \* where UserCache.Save stands (it holds c.mu while not "idle")
    ucBuf,      \* Save's marshalled snapshot (a local of Save: Absent outside it)
    ucLast,     \* per user id, <<name, time>> of the last Set/SetFull/SetBatch on it
                \* with no Clear or Load since, else <<>>
    ucSaved,    \* <<ToMap()>> as of the last Save that wrote the file, else <<>>
    ccChannels, \* ChannelCache.channels
    ccDms,      \* ChannelCache.dms
    ccDirty,    \* ChannelCache.dirty
    ccFs,       \* the files channels.json ("final") and channels.json.tmp ("tmp")
    ccPc,       \* where ChannelCache.Save stands
    ccBuf,      \* Save's marshalled snapshot
    ccLastCh,   \* <<ids, time>> of the last SetChannels with no Clear or Load since,
                \* else <<>>
    ccLastDm,   \* the same for SetDMs
    cfg,        \* Manager.config
    unreadCount, \* Manager.unreadCount
    title,      \* the terminal title as TitleNotifier last wrote it
    visual,     \* VisualNotifier.notifications
    calls,      \* the sinks the last step invoked, in order
    executor,   \* shell.Executor: client, channels, dms, userNames, currentChannel
    browseMode, \* Model.browseMode
    liveMode,   \* Model.liveMode
    phase,      \* the Model: "new" before Init, "run", "quit" after tea.Quit;
                \* "fatal" once the Go runtime has stopped the process
    realtime,   \* Model.realtimeClient != nil
    threads,    \* per thread calling the Manager: where it stands and its locals
    mu,         \* Manager.mu: the thread that holds it, 0 if none
    live,       \* the LiveModel of the channel on screen
    server,     \* the channel's history as Slack holds it, oldest first
    stream,     \* realtime events of the channel not yet handed to the program
    tasks,      \* commands running and results waiting in the event queue
    peeked,     \* the view as enterPeekMode found it, and what has arrived since
    prompt      \* the line typed at the prompt

ucVars == <<ucData, ucDirty, ucFs, ucPc, ucBuf, ucLast, ucSaved>>

ccVars == <<ccChannels, ccDms, ccDirty, ccFs, ccPc, ccBuf, ccLastCh, ccLastDm>>

cacheState == <<store, now, teamID, ucVars, ccVars>>

managerVars == <<cfg, unreadCount, title, visual>>

shellVars == <<executor, browseMode, liveMode, phase, realtime>>

threadVars == <<threads, mu>>

notifyVars == <<managerVars, calls, shellVars, threadVars>>

viewVars == <<live, server, stream, tasks, peeked, prompt>>

vars == <<op, cacheState, notifyVars, viewVars>>

(***************************************************************************)
(* Files                                                                   *)
(***************************************************************************)

\* No file at the path.
Absent == [kind |-> "absent"]

\* A file opened with O_TRUNC whose content has not been written in full.
Partial == [kind |-> "partial"]

\* Save writing the snapshot straight to c.filePath.
TmpPath_Final == "final"

\* Where Save writes the marshalled snapshot before the rename.
TmpPath == "tmp"

\* os.WriteFile opened the file: it exists and is truncated.
WriteFileOpen(fs, path) == [fs EXCEPT ![path] = Partial]

\* os.WriteFile wrote all of data.
WriteFileDone(fs, path, data) == [fs EXCEPT ![path] = data]

\* os.Rename(from, "final"): the final path atomically takes from's content.
Rename(fs, from) ==
    IF from = "final" THEN fs
    ELSE [fs EXCEPT !["final"] = fs[from], ![from] = Absent]

\* os.Remove(path)
Remove(fs, path) == [fs EXCEPT ![path] = Absent]

\* time.Since(cachedAt) > ttl
Expired(cachedAt) == now - cachedAt > TTL

\* An optional JSON field (omitempty): absent when the value is empty.
OmitEmpty(s) == IF s = "" THEN <<>> ELSE <<s>>

\* Decoding an optional JSON field: the zero value when absent.
FromOptional(f) == IF f = <<>> THEN "" ELSE f[1]

\* Load without the team check.
TeamMismatch_Never(fileTeam, team) == FALSE

\* The Load branch "Different team, start fresh".
TeamMismatch(fileTeam, team) == fileTeam # "" /\ fileTeam # team

(***************************************************************************)
(* UserCache                                                               *)
(***************************************************************************)

CachedUser(name, displayName, realName, at) ==
    [Name |-> name, DisplayName |-> displayName, RealName |-> realName, CachedAt |-> at]

EmptyUsers == [k \in {} |-> CachedUser("", "", "", 0)]

\* json.MarshalIndent(UserCacheFile{Version: 1, TeamID, UpdatedAt, Users}); updated_at
\* is written and never read back, and is left out.
MarshalUsers(team, data) ==
    [kind |-> "file", version |-> 1, team |-> team,
     users |-> [k \in DOMAIN data |->
                  [name |-> data[k].Name,
                   display_name |-> OmitEmpty(data[k].DisplayName),
                   real_name |-> OmitEmpty(data[k].RealName),
                   cached_at |-> data[k].CachedAt]]]

\* CachedUser.Name decoded from the display_name key.
UnmarshalUsers_WrongTag(file) ==
    [k \in DOMAIN file.users |->
        CachedUser(FromOptional(file.users[k].display_name),
                   FromOptional(file.users[k].display_name),
                   FromOptional(file.users[k].real_name),
                   file.users[k].cached_at)]

\* json.Unmarshal of the users object into map[string]CachedUser
UnmarshalUsers(file) ==
    [k \in DOMAIN file.users |->
        CachedUser(file.users[k].name,
                   FromOptional(file.users[k].display_name),
                   FromOptional(file.users[k].real_name),
                   file.users[k].cached_at)]

\* UserCache.Load: the data afterwards and whether an error is returned.
UcLoadResult(data, file, team) ==
    CASE file.kind = "absent" -> [data |-> data, err |-> FALSE]
      [] file.kind = "partial" -> [data |-> data, err |-> TRUE]
      [] TeamMismatch(file.team, team) -> [data |-> EmptyUsers, err |-> FALSE]
      [] OTHER -> [data |-> UnmarshalUsers(file), err |-> FALSE]

\* Get hiding an entry that is past its TTL.
Get_Strict(userID) ==
    IF userID \notin DOMAIN ucData \/ Expired(ucData[userID].CachedAt) THEN <<"", FALSE>>
    ELSE <<ucData[userID].Name, TRUE>>

\* UserCache.Get
Get(userID) ==
    IF userID \notin DOMAIN ucData THEN <<"", FALSE>>
    ELSE <<ucData[userID].Name, TRUE>>

\* UserCache.IsExpired
IsExpired(userID) ==
    IF userID \notin DOMAIN ucData THEN TRUE
    ELSE Expired(ucData[userID].CachedAt)

\* UserCache.ToMap
ToMap == [k \in DOMAIN ucData |-> ucData[k].Name]

\* UserCache.Size
Size == Cardinality(DOMAIN ucData)

NoLast == [k \in UserIDs |-> <<>>]

\* data[userID] = CachedUser{...}
Put(data, userID, entry) ==
    [k \in DOMAIN data \cup {userID} |-> IF k = userID THEN entry ELSE data[k]]

\* UserCache.SetFull
UcSetFull(userID, name, displayName, realName) ==
    /\ store = "users" /\ ucPc = "idle"
    /\ ucData' = Put(ucData, userID, CachedUser(name, displayName, realName, now))
    /\ ucDirty' = TRUE
    /\ ucLast' = [ucLast EXCEPT ![userID] = <<name, now>>]
    /\ op' = [name |-> "SetFull", err |-> FALSE]
    /\ UNCHANGED <<store, now, teamID, ucFs, ucPc, ucBuf, ucSaved, ccVars, notifyVars, viewVars>>

\* UserCache.Set: c.SetFull(userID, name, "", "")
UcSet == \E u \in UserIDs, n \in Names : UcSetFull(u, n, "", "")

\* UserCache.SetFull, called with a display name and a real name.
UcSetFullCall ==
    \E u \in UserIDs, n \in Names, d \in DisplayNames, r \in RealNames :
        UcSetFull(u, n, d, r)

\* The maps SetBatch is called with: every map from a set of user ids to names.
Batches == UNION {[S -> Names] : S \in SUBSET UserIDs}

\* UserCache.SetBatch
UcSetBatch ==
    \E users \in Batches :
        /\ store = "users" /\ ucPc = "idle"
        /\ ucData' = [k \in DOMAIN ucData \cup DOMAIN users |->
                        IF k \in DOMAIN users
                        THEN CachedUser(users[k], "", "", now) ELSE ucData[k]]
        /\ ucDirty' = (IF DOMAIN users # {} THEN TRUE ELSE ucDirty)
        /\ ucLast' = [k \in UserIDs |-> IF k \in DOMAIN users THEN <<users[k], now>>
                                         ELSE ucLast[k]]
        /\ op' = [name |-> IF DOMAIN users # {} THEN "SetBatch" ELSE "SetBatchEmpty",
                  err |-> FALSE]
        /\ UNCHANGED <<store, now, teamID, ucFs, ucPc, ucBuf, ucSaved, ccVars, notifyVars, viewVars>>

\* Clear without c.dirty = true.
UcClear_NotDirty ==
    /\ store = "users" /\ ucPc = "idle"
    /\ ucData' = EmptyUsers
    /\ ucLast' = NoLast
    /\ op' = [name |-> "Clear", err |-> FALSE]
    /\ UNCHANGED <<store, now, teamID, ucDirty, ucFs, ucPc, ucBuf, ucSaved, ccVars, notifyVars, viewVars>>

\* UserCache.Clear
UcClear ==
    /\ store = "users" /\ ucPc = "idle"
    /\ ucData' = EmptyUsers
    /\ ucDirty' = TRUE
    /\ ucLast' = NoLast
    /\ op' = [name |-> "Clear", err |-> FALSE]
    /\ UNCHANGED <<store, now, teamID, ucFs, ucPc, ucBuf, ucSaved, ccVars, notifyVars, viewVars>>

\* UserCache.IsExpired, called: it reads under the read lock and writes nothing.
UcIsExpired ==
    /\ store = "users" /\ ucPc = "idle"
    /\ UNCHANGED <<store, now, teamID, op, ucVars, ccVars, notifyVars, viewVars>>

\* UserCache.Load
UcLoad ==
    /\ store = "users" /\ ucPc = "idle"
    /\ LET r == UcLoadResult(ucData, ucFs["final"], teamID) IN
        /\ ucData' = r.data
        /\ op' = [name |-> "Load", err |-> r.err]
    /\ ucLast' = NoLast
    /\ UNCHANGED <<store, now, teamID, ucDirty, ucFs, ucPc, ucBuf, ucSaved, ccVars, notifyVars, viewVars>>

\* NewUserCache on the same directory and team id: a fresh cache, then Load.  It is
\* what a restart does, also the restart after a crash in the middle of Save.
UcNew ==
    /\ store = "users"
    /\ LET r == UcLoadResult(EmptyUsers, ucFs["final"], teamID) IN
        /\ ucData' = r.data
        /\ op' = [name |-> "New", err |-> r.err]
    /\ ucDirty' = FALSE
    /\ ucPc' = "idle"
    /\ ucBuf' = Absent
    /\ ucLast' = NoLast
    /\ UNCHANGED <<store, now, teamID, ucFs, ucSaved, ccVars, notifyVars, viewVars>>

\* UserCache.Save up to the opening of the temp file by os.WriteFile.
UcSaveBegin ==
    /\ store = "users" /\ ucPc = "idle"
    /\ \/ /\ ~ucDirty
          /\ op' = [name |-> "Save", err |-> FALSE]
          /\ UNCHANGED <<ucFs, ucPc, ucBuf>>
       \/ /\ ucDirty
          /\ ucBuf' = MarshalUsers(teamID, ucData)
          /\ ucFs' = WriteFileOpen(ucFs, TmpPath)
          /\ ucPc' = "writing"
          /\ op' = [name |-> "SaveOpen", err |-> FALSE]
       \/ /\ ucDirty
          /\ op' = [name |-> "Save", err |-> TRUE]
          /\ UNCHANGED <<ucFs, ucPc, ucBuf>>
    /\ UNCHANGED <<store, now, teamID, ucData, ucDirty, ucLast, ucSaved, ccVars, notifyVars, viewVars>>

\* os.WriteFile writes the snapshot, or fails part-way.
UcSaveWrite ==
    /\ store = "users" /\ ucPc = "writing"
    /\ \/ /\ ucFs' = WriteFileDone(ucFs, TmpPath, ucBuf)
          /\ ucPc' = "rename"
          /\ op' = [name |-> "SaveWrite", err |-> FALSE]
          /\ UNCHANGED ucBuf
       \/ /\ ucPc' = "idle"
          /\ ucBuf' = Absent
          /\ op' = [name |-> "Save", err |-> TRUE]
          /\ UNCHANGED ucFs
    /\ UNCHANGED <<store, now, teamID, ucData, ucDirty, ucLast, ucSaved, ccVars, notifyVars, viewVars>>

\* os.Rename(tmpPath, c.filePath), then c.dirty = false; on failure os.Remove(tmpPath).
UcSaveRename ==
    /\ store = "users" /\ ucPc = "rename"
    /\ \/ /\ ucFs' = Rename(ucFs, TmpPath)
          /\ ucDirty' = FALSE
          /\ ucSaved' = <<ToMap>>
          /\ op' = [name |-> "Save", err |-> FALSE]
       \/ /\ ucFs' = Remove(ucFs, TmpPath)
          /\ op' = [name |-> "Save", err |-> TRUE]
          /\ UNCHANGED <<ucDirty, ucSaved>>
    /\ ucPc' = "idle"
    /\ ucBuf' = Absent
    /\ UNCHANGED <<store, now, teamID, ucData, ucLast, ccVars, notifyVars, viewVars>>

\* Time passes.
Tick ==
    /\ now < MaxTime
    /\ now' = now + 1
    /\ op' = [name |-> "Tick", err |-> FALSE]
    /\ UNCHANGED <<store, teamID, ucVars, ccVars, notifyVars, viewVars>>

(***************************************************************************)
(* ChannelCache                                                            *)
(***************************************************************************)

CachedChannel(id, name, at) == [ID |-> id, Name |-> name, CachedAt |-> at]

\* The channel lists SetChannels is called with (CachedAt is stamped by the call).
ChannelLists ==
    {<<>>,
     <<CachedChannel("C1", "general", 0)>>,
     <<CachedChannel("C2", "dev", 0), CachedChannel("C1", "general", 0)>>}

\* The direct-message lists SetDMs is called with.
DMLists == {<<>>, <<CachedChannel("D1", "", 0)>>}

\* for i := range channels { channels[i].CachedAt = now }
Stamp(list) == [i \in 1..Len(list) |-> [list[i] EXCEPT !.CachedAt = now]]

IDs(list) == [i \in 1..Len(list) |-> list[i].ID]

\* json.MarshalIndent(ChannelCacheFile{Version: 1, TeamID, UpdatedAt, Channels, DMs});
\* updated_at is written and never read back, and is left out.
MarshalChannels(team, channels, dms) ==
    [kind |-> "file", version |-> 1, team |-> team,
     channels |-> [i \in 1..Len(channels) |->
                     [id |-> channels[i].ID, name |-> channels[i].Name,
                      cached_at |-> channels[i].CachedAt]],
     dms |-> [i \in 1..Len(dms) |->
                [id |-> dms[i].ID, name |-> dms[i].Name, cached_at |-> dms[i].CachedAt]]]

\* json.Unmarshal of a channels or dms array into []CachedChannel
UnmarshalList(list) ==
    [i \in 1..Len(list) |-> CachedChannel(list[i].id, list[i].name, list[i].cached_at)]

\* ChannelCache.Load: the lists afterwards and whether an error is returned.
CcLoadResult(channels, dms, file, team) ==
    CASE file.kind = "absent" -> [channels |-> channels, dms |-> dms, err |-> FALSE]
      [] file.kind = "partial" -> [channels |-> channels, dms |-> dms, err |-> TRUE]
      [] TeamMismatch(file.team, team) -> [channels |-> <<>>, dms |-> <<>>, err |-> FALSE]
      [] OTHER -> [channels |-> UnmarshalList(file.channels),
                   dms |-> UnmarshalList(file.dms), err |-> FALSE]

\* GetChannels and GetDMs without the expiry check.
GetList_NoExpiry(list) == list

\* The body GetChannels and GetDMs share: nil (the empty list) when the list is empty
\* or its first entry is past the TTL, else a copy of the list.
GetList(list) ==
    IF Len(list) = 0 THEN <<>>
    ELSE IF Expired(list[1].CachedAt) THEN <<>>
    ELSE list

\* ChannelCache.GetChannels
GetChannels == GetList(ccChannels)

\* ChannelCache.GetDMs
GetDMs == GetList(ccDms)

\* ChannelCache.IsChannelsExpired
IsChannelsExpired ==
    IF Len(ccChannels) = 0 THEN TRUE ELSE Expired(ccChannels[1].CachedAt)

\* ChannelCache.IsDMsExpired
IsDMsExpired ==
    IF Len(ccDms) = 0 THEN TRUE ELSE Expired(ccDms[1].CachedAt)

\* ChannelCache.SetChannels
CcSetChannels ==
    \E list \in ChannelLists :
        /\ store = "channels" /\ ccPc = "idle"
        /\ ccChannels' = Stamp(list)
        /\ ccDirty' = TRUE
        /\ ccLastCh' = <<IDs(list), now>>
        /\ op' = [name |-> "SetChannels", err |-> FALSE]
        /\ UNCHANGED <<store, now, teamID, ccDms, ccFs, ccPc, ccBuf, ccLastDm, ucVars, notifyVars, viewVars>>

\* ChannelCache.SetDMs
CcSetDMs ==
    \E list \in DMLists :
        /\ store = "channels" /\ ccPc = "idle"
        /\ ccDms' = Stamp(list)
        /\ ccDirty' = TRUE
        /\ ccLastDm' = <<IDs(list), now>>
        /\ op' = [name |-> "SetDMs", err |-> FALSE]
        /\ UNCHANGED <<store, now, teamID, ccChannels, ccFs, ccPc, ccBuf, ccLastCh, ucVars, notifyVars, viewVars>>

\* ChannelCache.Clear
CcClear ==
    /\ store = "channels" /\ ccPc = "idle"
    /\ ccChannels' = <<>>
    /\ ccDms' = <<>>
    /\ ccDirty' = TRUE
    /\ ccLastCh' = <<>>
    /\ ccLastDm' = <<>>
    /\ op' = [name |-> "Clear", err |-> FALSE]
    /\ UNCHANGED <<store, now, teamID, ccFs, ccPc, ccBuf, ucVars, notifyVars, viewVars>>

\* ChannelCache.IsChannelsExpired or IsDMsExpired, called: a read under the read lock.
CcIsExpired ==
    /\ store = "channels" /\ ccPc = "idle"
    /\ UNCHANGED <<store, now, teamID, op, ucVars, ccVars, notifyVars, viewVars>>

\* ChannelCache.Load
CcLoad ==
    /\ store = "channels" /\ ccPc = "idle"
    /\ LET r == CcLoadResult(ccChannels, ccDms, ccFs["final"], teamID) IN
        /\ ccChannels' = r.channels
        /\ ccDms' = r.dms
        /\ op' = [name |-> "Load", err |-> r.err]
    /\ ccLastCh' = <<>>
    /\ ccLastDm' = <<>>
    /\ UNCHANGED <<store, now, teamID, ccDirty, ccFs, ccPc, ccBuf, ucVars, notifyVars, viewVars>>

\* NewChannelCache on the same directory and team id: a fresh cache, then Load.
CcNew ==
    /\ store = "channels"
    /\ LET r == CcLoadResult(<<>>, <<>>, ccFs["final"], teamID) IN
        /\ ccChannels' = r.channels
        /\ ccDms' = r.dms
        /\ op' = [name |-> "New", err |-> r.err]
    /\ ccDirty' = FALSE
    /\ ccPc' = "idle"
    /\ ccBuf' = Absent
    /\ ccLastCh' = <<>>
    /\ ccLastDm' = <<>>
    /\ UNCHANGED <<store, now, teamID, ccFs, ucVars, notifyVars, viewVars>>

\* ChannelCache.Save up to the opening of the temp file by os.WriteFile.
CcSaveBegin ==
    /\ store = "channels" /\ ccPc = "idle"
    /\ \/ /\ ~ccDirty
          /\ op' = [name |-> "Save", err |-> FALSE]
          /\ UNCHANGED <<ccFs, ccPc, ccBuf>>
       \/ /\ ccDirty
          /\ ccBuf' = MarshalChannels(teamID, ccChannels, ccDms)
          /\ ccFs' = WriteFileOpen(ccFs, TmpPath)
          /\ ccPc' = "writing"
          /\ op' = [name |-> "SaveOpen", err |-> FALSE]
       \/ /\ ccDirty
          /\ op' = [name |-> "Save", err |-> TRUE]
          /\ UNCHANGED <<ccFs, ccPc, ccBuf>>
    /\ UNCHANGED <<store, now, teamID, ccChannels, ccDms, ccDirty, ccLastCh, ccLastDm, ucVars, notifyVars, viewVars>>

\* os.WriteFile writes the snapshot, or fails part-way.
CcSaveWrite ==
    /\ store = "channels" /\ ccPc = "writing"
    /\ \/ /\ ccFs' = WriteFileDone(ccFs, TmpPath, ccBuf)
          /\ ccPc' = "rename"
          /\ op' = [name |-> "SaveWrite", err |-> FALSE]
          /\ UNCHANGED ccBuf
       \/ /\ ccPc' = "idle"
          /\ ccBuf' = Absent
          /\ op' = [name |-> "Save", err |-> TRUE]
          /\ UNCHANGED ccFs
    /\ UNCHANGED <<store, now, teamID, ccChannels, ccDms, ccDirty, ccLastCh, ccLastDm, ucVars, notifyVars, viewVars>>

\* os.Rename(tmpPath, c.filePath), then c.dirty = false; on failure os.Remove(tmpPath).
CcSaveRename ==
    /\ store = "channels" /\ ccPc = "rename"
    /\ \/ /\ ccFs' = Rename(ccFs, TmpPath)
          /\ ccDirty' = FALSE
          /\ op' = [name |-> "Save", err |-> FALSE]
       \/ /\ ccFs' = Remove(ccFs, TmpPath)
          /\ op' = [name |-> "Save", err |-> TRUE]
          /\ UNCHANGED ccDirty
    /\ ccPc' = "idle"
    /\ ccBuf' = Absent
    /\ UNCHANGED <<store, now, teamID, ccChannels, ccDms, ccLastCh, ccLastDm, ucVars, notifyVars, viewVars>>

(***************************************************************************)
(* Text: a Go string is a sequence of one-character strings                *)
(***************************************************************************)

\* strings.HasPrefix
HasPrefix(s, prefix) ==
    Len(s) >= Len(prefix) /\ SubSeq(s, 1, Len(prefix)) = prefix

\* strings.TrimPrefix
TrimPrefix(s, prefix) ==
    IF HasPrefix(s, prefix) THEN SubSeq(s, Len(prefix) + 1, Len(s)) ELSE s

\* The capital letters of the ASCII alphabet and their lower-case letters
UpperLetters == <<"A", "B", "C", "D", "E", "F", "G", "H", "I", "J", "K", "L", "M", "N", "O", "P", "Q", "R", "S", "T", "U", "V", "W", "X", "Y", "Z">>

LowerLetters == <<"a", "b", "c", "d", "e", "f", "g", "h", "i", "j", "k", "l", "m", "n", "o", "p", "q", "r", "s", "t", "u", "v", "w", "x", "y", "z">>

LowerOf ==
    [r \in {UpperLetters[i] : i \in 1..Len(UpperLetters)} |->
        LowerLetters[CHOOSE i \in 1..Len(UpperLetters) : UpperLetters[i] = r]]

\* unicode.ToLower on the letters of the ASCII alphabet
ToLowerRune(r) == IF r \in DOMAIN LowerOf THEN LowerOf[r] ELSE r

\* strings.ToLower
ToLower(s) == [i \in 1..Len(s) |-> ToLowerRune(s[i])]

\* strings.EqualFold
EqualFold(s, t) == ToLower(s) = ToLower(t)

\* strings.Contains
Contains(s, substr) ==
    \E i \in 0..(Len(s) - Len(substr)) : SubSeq(s, i + 1, i + Len(substr)) = substr

(***************************************************************************)
(* The workspace the client serves                                         *)
(***************************************************************************)

\* slack.Channel
Channel(id, name) == [ID |-> id, Name |-> name, IsIM |-> FALSE, UserID |-> <<>>]

\* What client.GetChannels returns: two channels, the second with a capital in its
\* name.
Workspace ==
    << Channel(<<"C", "1">>, <<"g", "e", "n">>),
       Channel(<<"C", "2">>, <<"D", "e", "v">>) >>

\* What client.GetDMs returns: the workspace has no direct-message conversation.
WorkspaceDMs == <<>>

\* A second workspace: four channels, and two open direct-message conversations, the
\* second with a user whose name is also the name of a channel.
ExampleChannels ==
    << Channel(<<"E", "1">>, <<"g", "e", "n", "e", "r", "a", "l">>),
       Channel(<<"E", "2">>, <<"d", "e", "v", "-", "b", "a", "c", "k", "e", "n", "d">>),
       Channel(<<"E", "3">>, <<"d", "e", "v", "-", "f", "r", "o", "n", "t", "e", "n", "d">>),
       Channel(<<"E", "4">>, <<"r", "a", "n", "d", "o", "m">>) >>

\* slack.Channel of a direct-message conversation (GetDMs sets Name to the user's ID)
DM(id, userID) == [ID |-> id, Name |-> userID, IsIM |-> TRUE, UserID |-> userID]

ExampleDMs == << DM(<<"D", "1">>, <<"U", "7">>), DM(<<"D", "2">>, <<"U", "8">>) >>

\* The users' names in the second workspace
ExampleUserNames == (<<"U", "7">> :> <<"a", "l", "i", "c", "e">>) @@ (<<"U", "8">> :> <<"R", "a", "n", "d", "o", "m">>)

\* The clients: of the workspace of Workspace, and of the second workspace.
WorkspaceClient == "W1"

ExampleClient == "W2"

Clients == {WorkspaceClient, ExampleClient}

\* Client.GetChannels, when the call succeeds
ClientGetChannels(client) ==
    IF client = ExampleClient THEN ExampleChannels ELSE Workspace

\* Client.GetDMs, when the call succeeds: a workspace without an open direct
\* message gives the nil slice
ClientGetDMs(client) ==
    IF client = ExampleClient THEN ExampleDMs ELSE WorkspaceDMs

\* Client.GetUsersInfo, when the call succeeds: the names by user ID
ClientGetUsersInfo(client, userIDs) ==
    IF client = ExampleClient
    THEN [u \in {userIDs[i] : i \in 1..Len(userIDs)} \cap DOMAIN ExampleUserNames |->
             ExampleUserNames[u]]
    ELSE [u \in {} |-> <<>>]

\* Which calls of the Slack API succeed while a command runs
ApiOutcomes == [channels : BOOLEAN, dms : BOOLEAN, users : BOOLEAN, post : BOOLEAN]

\* The API up and the API down
ApiUp == [channels |-> TRUE, dms |-> TRUE, users |-> TRUE, post |-> TRUE]

ApiDown == [channels |-> FALSE, dms |-> FALSE, users |-> FALSE, post |-> FALSE]

ApiUniform == {ApiUp, ApiDown}

ChannelIDs == {Workspace[i].ID : i \in 1..Len(Workspace)}

\* A nil *slack.Channel, and the empty channel id the Model passes for it.
NoChannel == <<>>

\* The user id of the session's own user (Executor.GetCurrentUserID).
CurrentUserID == "U0"

\* Who sends the inbound messages: another user, or the session's own user.
Senders == {"U2", CurrentUserID}

\* The texts of the inbound messages: plain, and one carrying <!here>.
Texts ==
    { <<"h", "i">>,
      <<"<", "!", "h", "e", "r", "e", ">">> }

(***************************************************************************)
(* Notification configuration                                              *)
(***************************************************************************)

\* DefaultConfig, with the visual queue cut to MaxItems.
DefaultConfig ==
    [Enabled |-> TRUE,
     Bell |-> [Enabled |-> TRUE, MentionsOnly |-> FALSE],
     Desktop |-> [Enabled |-> TRUE, MentionsOnly |-> FALSE],
     Title |-> [Enabled |-> TRUE],
     Visual |-> [Enabled |-> TRUE, MaxItems |-> MaxItems, DismissAfter |-> DismissAfter],
     MuteChannels |-> <<>>,
     DND |-> FALSE]

\* The configurations a session starts with: the default; notifications disabled; DND
\* on with the audible sink on mentions only; a channel muted by its name in lower
\* case with the audible and desktop sinks on mentions only; the title and the desktop
\* sink off.
Configs ==
    { DefaultConfig,
      [DefaultConfig EXCEPT !.Enabled = FALSE],
      [DefaultConfig EXCEPT !.DND = TRUE, !.Bell.MentionsOnly = TRUE],
      [DefaultConfig EXCEPT !.MuteChannels = << <<"d", "e", "v">> >>,
                            !.Bell.MentionsOnly = TRUE,
                            !.Desktop.MentionsOnly = TRUE,
                            !.Visual.Enabled = FALSE],
      [DefaultConfig EXCEPT !.Title.Enabled = FALSE,
                            !.Desktop.Enabled = FALSE,
                            !.Visual.Enabled = FALSE] }

\* The channel ids MuteChannel and UnmuteChannel are called with.
MuteInputs == {Workspace[1].ID}

(***************************************************************************)
(* notification.Manager and its sinks                                      *)
(***************************************************************************)

\* notification.Message.  UserName, Text and IsIM reach the desktop sink's text only
\* and are left out.
Message(channelID, channelName, isMention) ==
    [ChannelID |-> channelID, ChannelName |-> channelName, IsMention |-> isMention]

\* One invocation of a sink by the Manager; count is the argument of
\* UpdateUnreadCount and 0 for the other sinks.
Call(sink, count) == [sink |-> sink, count |-> count]

\* m.unreadCount[channelID] read from the Go map: 0 for a missing key.
Count(counts, channelID) ==
    IF channelID \in DOMAIN counts THEN counts[channelID] ELSE 0

\* m.unreadCount[msg.ChannelID]++
Incr(counts, channelID) ==
    [k \in DOMAIN counts \cup {channelID} |->
        IF k = channelID THEN Count(counts, k) + 1 ELSE counts[k]]

\* delete(m.unreadCount, channelID)
Delete(counts, channelID) ==
    [k \in DOMAIN counts \ {channelID} |-> counts[k]]

RECURSIVE SumOver(_, _)
\* The loop of getTotalUnreadLocked over the keys in keys
SumOver(counts, keys) ==
    IF keys = {} THEN 0
    ELSE LET k == CHOOSE x \in keys : TRUE
         IN counts[k] + SumOver(counts, keys \ {k})

\* Manager.getTotalUnreadLocked
getTotalUnreadLocked(counts) == SumOver(counts, DOMAIN counts)

\* Manager.GetTotalUnread
GetTotalUnread == getTotalUnreadLocked(unreadCount)

\* Manager.GetUnreadForChannel
GetUnreadForChannel(channelID) == Count(unreadCount, channelID)

\* isChannelMuted matching the channel id only.
isChannelMuted_IdOnly(channelID, channelName) ==
    \E i \in 1..Len(cfg.MuteChannels) : cfg.MuteChannels[i] = channelID

\* Manager.isChannelMuted
isChannelMuted(channelID, channelName) ==
    \E i \in 1..Len(cfg.MuteChannels) :
        \/ cfg.MuteChannels[i] = channelID
        \/ EqualFold(cfg.MuteChannels[i], channelName)

\* The filters of HandleMessage without the tail-mode exception.
Filtered_NoTailMode(msg, currentChannelID, inTailMode) ==
    \/ ~cfg.Enabled
    \/ cfg.DND
    \/ isChannelMuted(msg.ChannelID, msg.ChannelName)
    \/ msg.ChannelID = currentChannelID

\* The four early returns of HandleMessage
Filtered(msg, currentChannelID, inTailMode) ==
    \/ ~cfg.Enabled
    \/ cfg.DND
    \/ isChannelMuted(msg.ChannelID, msg.ChannelName)
    \/ (msg.ChannelID = currentChannelID /\ ~inTailMode)

\* What TitleNotifier.UpdateUnreadCount prints as the terminal title: the format with
\* the count in it (here the count) when count > 0, else the base title (here 0).
TitleText(count) == IF count > 0 THEN count ELSE 0

\* TitleNotifier.UpdateUnreadCount
UpdateUnreadCount(shown, count) ==
    IF ~cfg.Title.Enabled THEN shown ELSE TitleText(count)

\* VisualNotifier.Notify; a notificationItem keeps the channel id of its message.
VisualNotify(queue, msg) ==
    IF ~cfg.Visual.Enabled THEN queue
    ELSE LET added == Append(queue, [message |-> msg.ChannelID, createdAt |-> now])
         IN IF Len(added) > cfg.Visual.MaxItems
            THEN SubSeq(added, Len(added) - cfg.Visual.MaxItems + 1, Len(added))
            ELSE added

\* The sinks of HandleMessage with one mentions-only toggle for the audible and the
\* desktop sink.
SinkCalls_SharedToggle(msg, totalUnread) ==
    LET shouldBell == cfg.Bell.Enabled /\ (~cfg.Bell.MentionsOnly \/ msg.IsMention)
        shouldDesktop == cfg.Desktop.Enabled /\ (~cfg.Bell.MentionsOnly \/ msg.IsMention)
    IN (IF shouldBell THEN <<Call("bell", 0)>> ELSE <<>>)
       \o (IF shouldDesktop THEN <<Call("desktop", 0)>> ELSE <<>>)
       \o (IF cfg.Title.Enabled THEN <<Call("title", totalUnread)>> ELSE <<>>)
       \o (IF cfg.Visual.Enabled THEN <<Call("visual", 0)>> ELSE <<>>)

\* The sinks HandleMessage invokes after the count, in the order it invokes them.
SinkCalls(msg, totalUnread) ==
    LET shouldBell == cfg.Bell.Enabled /\ (~cfg.Bell.MentionsOnly \/ msg.IsMention)
        shouldDesktop == cfg.Desktop.Enabled /\ (~cfg.Desktop.MentionsOnly \/ msg.IsMention)
    IN (IF shouldBell THEN <<Call("bell", 0)>> ELSE <<>>)
       \o (IF shouldDesktop THEN <<Call("desktop", 0)>> ELSE <<>>)
       \o (IF cfg.Title.Enabled THEN <<Call("title", totalUnread)>> ELSE <<>>)
       \o (IF cfg.Visual.Enabled THEN <<Call("visual", 0)>> ELSE <<>>)

\* Manager.HandleMessage, called from one thread
HandleMessage(msg, currentChannelID, inTailMode) ==
    IF Filtered(msg, currentChannelID, inTailMode)
    THEN /\ calls' = <<>>
         /\ UNCHANGED <<unreadCount, title, visual>>
    ELSE LET counts == Incr(unreadCount, msg.ChannelID)
             totalUnread == getTotalUnreadLocked(counts)
         IN /\ unreadCount' = counts
            /\ calls' = SinkCalls(msg, totalUnread)
            /\ title' = IF cfg.Title.Enabled THEN UpdateUnreadCount(title, totalUnread)
                        ELSE title
            /\ visual' = IF cfg.Visual.Enabled THEN VisualNotify(visual, msg) ELSE visual

\* Manager.ClearUnread, called from one thread
ClearUnread(channelID) ==
    LET counts == Delete(unreadCount, channelID)
        totalUnread == getTotalUnreadLocked(counts)
    IN /\ unreadCount' = counts
       /\ calls' = IF cfg.Title.Enabled THEN <<Call("title", totalUnread)>> ELSE <<>>
       /\ title' = IF cfg.Title.Enabled THEN UpdateUnreadCount(title, totalUnread)
                   ELSE title

\* Manager.SetDND
SetDND ==
    /\ phase = "run"
    /\ \E enabled \in BOOLEAN :
          /\ cfg' = [cfg EXCEPT !.DND = enabled]
          /\ op' = [name |-> "SetDND"]
    /\ calls' = <<>>
    /\ UNCHANGED <<unreadCount, title, visual, shellVars, threadVars, cacheState, viewVars>>

\* Manager.MuteChannel
MuteChannel ==
    /\ phase = "run"
    /\ \E channelID \in MuteInputs :
          /\ cfg' = IF \E i \in 1..Len(cfg.MuteChannels) : cfg.MuteChannels[i] = channelID
                    THEN cfg
                    ELSE [cfg EXCEPT !.MuteChannels = Append(@, channelID)]
          /\ op' = [name |-> "MuteChannel"]
    /\ calls' = <<>>
    /\ UNCHANGED <<unreadCount, title, visual, shellVars, threadVars, cacheState, viewVars>>

\* The first index of channelID in list, 0 if it is not in it
IndexOf(list, channelID) ==
    IF \E i \in 1..Len(list) : list[i] = channelID
    THEN CHOOSE i \in 1..Len(list) :
            list[i] = channelID /\ \A j \in 1..(i - 1) : list[j] # channelID
    ELSE 0

\* Manager.UnmuteChannel
UnmuteChannel ==
    /\ phase = "run"
    /\ \E channelID \in MuteInputs :
          LET i == IndexOf(cfg.MuteChannels, channelID)
          IN /\ cfg' = IF i = 0 THEN cfg
                       ELSE [cfg EXCEPT !.MuteChannels =
                                SubSeq(@, 1, i - 1) \o SubSeq(@, i + 1, Len(@))]
             /\ op' = [name |-> "UnmuteChannel"]
    /\ calls' = <<>>
    /\ UNCHANGED <<unreadCount, title, visual, shellVars, threadVars, cacheState, viewVars>>

\* VisualNotifier.cleanup as the session sees it, where the clock is left out: the
\* items the sweep takes are the old ones, and items are appended in time order, so
\* they are a prefix of the queue.
VisualCleanup ==
    /\ phase = "run"
    /\ Len(visual) > 0
    /\ \E n \in 1..Len(visual) : visual' = SubSeq(visual, n + 1, Len(visual))
    /\ op' = [name |-> "cleanup"]
    /\ calls' = <<>>
    /\ UNCHANGED <<cfg, unreadCount, title, shellVars, threadVars, cacheState, viewVars>>

\* VisualNotifier.Notify, called on its own
VnNotify ==
    /\ \E channelID \in ChannelIDs :
          /\ visual' = VisualNotify(visual, Message(channelID, channelID, FALSE))
          /\ op' = [name |-> "VisualNotifier.Notify", before |-> visual]
    /\ UNCHANGED <<cfg, unreadCount, title, calls, shellVars, threadVars, cacheState, viewVars>>

\* VisualNotifier.GetNotifications
VnGetNotifications ==
    /\ op' = [name |-> "VisualNotifier.GetNotifications",
              msgs |-> [i \in 1..Len(visual) |-> visual[i].message]]
    /\ UNCHANGED <<managerVars, calls, shellVars, threadVars, cacheState, viewVars>>

\* VisualNotifier.Dismiss
VnDismiss ==
    /\ \E index \in -1..MaxQueue :
          /\ visual' = IF index >= 0 /\ index < Len(visual)
                       THEN SubSeq(visual, 1, index) \o SubSeq(visual, index + 2, Len(visual))
                       ELSE visual
          /\ op' = [name |-> "VisualNotifier.Dismiss", index |-> index]
    /\ UNCHANGED <<cfg, unreadCount, title, calls, shellVars, threadVars, cacheState, viewVars>>

\* VisualNotifier.DismissAll
VnDismissAll ==
    /\ visual' = <<>>
    /\ op' = [name |-> "VisualNotifier.DismissAll"]
    /\ UNCHANGED <<cfg, unreadCount, title, calls, shellVars, threadVars, cacheState, viewVars>>

\* VisualNotifier.cleanup keeping the items created at the cutoff.
cleanup_KeepAtCutoff(queue) ==
    IF cfg.Visual.DismissAfter <= 0 THEN queue
    ELSE LET cutoff == now - cfg.Visual.DismissAfter
             After(item) == item.createdAt >= cutoff
         IN SelectSeq(queue, After)

\* VisualNotifier.cleanup
cleanup(queue) ==
    IF cfg.Visual.DismissAfter <= 0 THEN queue
    ELSE LET cutoff == now - cfg.Visual.DismissAfter
             After(item) == item.createdAt > cutoff
         IN SelectSeq(queue, After)

\* One turn of VisualNotifier.cleanupLoop, which NewVisualNotifier starts when
\* DismissAfter > 0
VnCleanup ==
    /\ cfg.Visual.DismissAfter > 0
    /\ visual' = cleanup(visual)
    /\ op' = [name |-> "VisualNotifier.cleanup", before |-> visual]
    /\ UNCHANGED <<cfg, unreadCount, title, calls, shellVars, threadVars, cacheState, viewVars>>

(***************************************************************************)
(* shell.Executor                                                          *)
(***************************************************************************)

\* shell.Command as the lines of Inputs need it, without Flags and RawArgs (Command
\* has them).
Cmd(type, args) == [Type |-> type, Args |-> args]

\* The zero Command (var parsedCmd Command): its Type is CmdUnknown.
ZeroCommand == Cmd("CmdUnknown", <<>>)

\* A typed line as IsPipeline and ParsePipeline (ParseCommand) read it: pipe is what
\* IsPipeline returns, cmds the parsed stages.
Line(pipe, cmds) == [pipe |-> pipe, cmds |-> cmds]

\* The lines typed at the prompt.
Inputs ==
    { Line(FALSE, <<Cmd("CmdCd", << <<"#", "d", "e", "v">> >>)>>),      \* cd #dev
      Line(FALSE, <<Cmd("CmdCd", << <<"#", "G", "E", "N">> >>)>>),      \* cd #GEN
      Line(FALSE, <<Cmd("CmdCd", << <<"g", "e", "n">> >>)>>),           \* cd gen
      Line(FALSE, <<Cmd("CmdCd", << <<"#", "n", "o">> >>)>>),           \* cd #no
      Line(FALSE, <<Cmd("CmdCd", <<>>)>>),                              \* cd
      Line(FALSE, <<Cmd("CmdBack", <<>>)>>),                            \* ..
      Line(FALSE, <<Cmd("CmdLs", <<>>)>>),                              \* ls
      Line(FALSE, <<Cmd("CmdBrowse", <<>>)>>),                          \* browse
      Line(FALSE, <<Cmd("CmdLive", <<>>)>>),                            \* live
      Line(FALSE, <<Cmd("CmdExit", <<>>)>>),                            \* exit
      Line(TRUE, <<Cmd("CmdCd", << <<"#", "d", "e", "v">> >>),
                   Cmd("CmdGrep", << <<"e", "n", "t">> >>)>>),          \* cd #dev | grep ent
      Line(TRUE, <<Cmd("CmdCd", << <<"#", "g", "e", "n">> >>),
                   Cmd("CmdGrep", << <<"z">> >>)>>),                    \* cd #gen | grep z
      Line(TRUE, <<Cmd("CmdLs", <<>>),
                   Cmd("CmdCd", << <<"#", "d", "e", "v">> >>)>>) }      \* ls | cd #dev

\* The init_commands lists of the startup configuration.
InitCommandLists ==
    { <<>>,
      << Line(FALSE, <<Cmd("CmdCd", << <<"#", "d", "e", "v">> >>)>>) >>,
      << Line(FALSE, <<Cmd("CmdLs", <<>>)>>),
         Line(TRUE, <<Cmd("CmdCd", << <<"#", "g", "e", "n">> >>),
                      Cmd("CmdGrep", << <<"e", "n", "t">> >>)>>) >> }

\* shell.ExecuteResult, with the Executor as the call left it.  Output is the lines
\* of the output string ("" is no line), Error the error's text ("" is nil),
\* SwitchWorkspace the new client (<<>> is nil), Calls the made made to the client
\* that fetch a list.
Result(output, error, exit, e) ==
    [Output |-> output, Error |-> error, Exit |-> exit, e |-> e,
     SwitchWorkspace |-> <<>>, Calls |-> <<>>]

\* The result of a call that made the made before it returned
Called(made, result) == [result EXCEPT !.Calls = made \o @]

\* Executor.userNames when empty
NoUserNames == [u \in {} |-> <<>>]

\* NewExecutor: nothing loaded, no current channel (a nil slice and a nil pointer are
\* <<>>, a pointer to ch is <<ch>>).
NewExecutor ==
    [client |-> WorkspaceClient, channels |-> <<>>, dms |-> <<>>,
     userNames |-> NoUserNames, currentChannel |-> <<>>]

\* Executor.GetCurrentChannel's ID as the Model reads it ("" when nil).
CurrentChannelID(e) ==
    IF e.currentChannel = <<>> THEN NoChannel ELSE e.currentChannel[1].ID

\* Executor.enterChannel
enterChannel(e, name, apiOk) ==
    IF e.channels = <<>> /\ ~apiOk.channels
    THEN Called(<<"GetChannels">>, Result(<<>>, "failed to load channels", FALSE, e))
    ELSE LET made == IF e.channels = <<>> THEN <<"GetChannels">> ELSE <<>>
             channels == IF e.channels = <<>> THEN ClientGetChannels(e.client)
                         ELSE e.channels
             hits == {i \in 1..Len(channels) : EqualFold(channels[i].Name, name)}
         IN IF hits # {}
            THEN LET i == CHOOSE x \in hits : \A y \in hits : x <= y
                 IN Called(made,
                       Result(<< <<"E", "n", "t", "e", "r", "e", "d", " ", "#">> \o channels[i].Name >>, "", FALSE,
                              [e EXCEPT !.channels = channels,
                                        !.currentChannel = <<channels[i]>>]))
            ELSE Called(made, Result(<<>>, "channel not found", FALSE,
                                      [e EXCEPT !.channels = channels]))

\* The user IDs of the conversations of dms that have one
UserIDsOf(dms) ==
    LET HasUser(dm) == dm.UserID # <<>>
        with == SelectSeq(dms, HasUser)
    IN [i \in 1..Len(with) |-> with[i].UserID]

\* userNames[userID], "" when the map has no such key
NameIn(userNames, userID) ==
    IF userID \in DOMAIN userNames THEN userNames[userID] ELSE <<>>

\* Executor.enterDM
enterDM(e, userName, apiOk) ==
    IF e.dms = <<>> /\ ~apiOk.dms
    THEN Called(<<"GetDMs">>, Result(<<>>, "failed to load DMs", FALSE, e))
    ELSE LET fetch == e.dms = <<>>
             dms == IF fetch THEN ClientGetDMs(e.client) ELSE e.dms
             userIDs == UserIDsOf(dms)
             ask == fetch /\ Len(userIDs) > 0
             userNames == IF ask /\ apiOk.users
                          THEN ClientGetUsersInfo(e.client, userIDs) @@ e.userNames
                          ELSE e.userNames
             made == (IF fetch THEN <<"GetDMs">> ELSE <<>>)
                        \o (IF ask THEN <<"GetUsersInfo">> ELSE <<>>)
             loaded == [e EXCEPT !.dms = dms, !.userNames = userNames]
             hits == {i \in 1..Len(dms) :
                         \/ EqualFold(NameIn(userNames, dms[i].UserID), userName)
                         \/ EqualFold(dms[i].UserID, userName)}
         IN IF hits # {}
            THEN LET i == CHOOSE x \in hits : \A y \in hits : x <= y
                     name == NameIn(userNames, dms[i].UserID)
                     displayName == IF name = <<>> THEN dms[i].UserID ELSE name
                 IN Called(made,
                       Result(<< <<"E", "n", "t", "e", "r", "e", "d", " ", "D", "M", " ", "w", "i", "t", "h", " ", "@">> \o displayName >>, "", FALSE,
                              [loaded EXCEPT !.currentChannel = <<dms[i]>>]))
            ELSE Called(made, Result(<<>>, "user not found", FALSE, loaded))

\* The end of Executor.executeCd for a target without a sigil: result is what
\* enterChannel returned, and the direct message is tried when it is an error
OrDM(result, target, apiOk) ==
    IF result.Error = "" THEN result
    ELSE Called(result.Calls, enterDM(result.e, target, apiOk))

\* Executor.executeCd
executeCd(e, cmd, apiOk) ==
    IF Len(cmd.Args) = 0
    THEN Result(<< <<"U", "s", "a", "g", "e">> >>, "", FALSE, e)
    ELSE LET target == cmd.Args[1]
         IN IF HasPrefix(target, <<"#">>)
            THEN enterChannel(e, TrimPrefix(target, <<"#">>), apiOk)
            ELSE IF HasPrefix(target, <<"@">>)
            THEN enterDM(e, TrimPrefix(target, <<"@">>), apiOk)
            ELSE OrDM(enterChannel(e, target, apiOk), target, apiOk)

\* Executor.executeBack
executeBack(e) ==
    IF e.currentChannel = <<>>
    THEN Result(<< <<"A", "l", "r", "e", "a", "d", "y">> >>, "", FALSE, e)
    ELSE Result(<< <<"R", "e", "t", "u", "r", "n", "e", "d">> >>, "", FALSE,
                [e EXCEPT !.currentChannel = <<>>])

\* The lines "  @ name" of the two listings, a user without a name in userNames
\* shown by ID
DMLines(dms, userNames) ==
    [i \in 1..Len(dms) |->
        <<" ", " ", "@", " ">> \o (IF dms[i].UserID \in DOMAIN userNames
                     THEN userNames[dms[i].UserID] ELSE dms[i].UserID)]

\* FormatChannelList, as the lines of its string: a header and one line per channel
\* (none is private), then an empty line, a header and one line per direct message.
\* The string ends with a newline: the empty piece that strings.Split finds after it
\* is not listed.
FormatChannelList(channels, dms, userNames) ==
    LET channelLines ==
            IF Len(channels) > 0
            THEN << <<"C", "h", "a", "n", "n", "e", "l", "s", ":">> >>
                 \o [i \in 1..Len(channels) |-> <<" ", " ", "#", " ">> \o channels[i].Name]
            ELSE <<>>
        dmLines ==
            IF Len(dms) > 0
            THEN (IF Len(channelLines) > 0 THEN << <<>> >> ELSE <<>>)
                 \o << <<"D", "i", "r", "e", "c", "t", " ", "M", "e", "s", "s", "a", "g", "e", "s", ":">> >> \o DMLines(dms, userNames)
            ELSE <<>>
    IN IF channelLines \o dmLines = <<>> THEN << <<"N", "o", " ", "c", "h", "a", "n", "n", "e", "l", "s", " ", "f", "o", "u", "n", "d", ".">> >>
       ELSE channelLines \o dmLines

\* FormatDMList
FormatDMList(dms, userNames) ==
    IF Len(dms) = 0 THEN << <<"N", "o", " ", "d", "i", "r", "e", "c", "t", " ", "m", "e", "s", "s", "a", "g", "e", "s", " ", "f", "o", "u", "n", "d", ".">> >>
    ELSE << <<"D", "i", "r", "e", "c", "t", " ", "M", "e", "s", "s", "a", "g", "e", "s", ":">> >> \o DMLines(dms, userNames)

\* Executor.executeLs
executeLs(e, cmd, apiOk) ==
    LET dmOnly == Len(cmd.Args) > 0 /\ cmd.Args[1] = <<"d", "m">>
        fetchChannels == ~dmOnly /\ e.channels = <<>>
        fetchDMs == e.dms = <<>>
        channels == IF fetchChannels THEN ClientGetChannels(e.client) ELSE e.channels
        dms == IF fetchDMs THEN ClientGetDMs(e.client) ELSE e.dms
        userIDs == UserIDsOf(dms)
        ask == Len(dms) > 0 /\ Len(userIDs) > 0
        userNames == IF ask /\ apiOk.users
                     THEN ClientGetUsersInfo(e.client, userIDs) @@ e.userNames
                     ELSE e.userNames
        made == (IF fetchChannels THEN <<"GetChannels">> ELSE <<>>)
                   \o (IF fetchDMs THEN <<"GetDMs">> ELSE <<>>)
                   \o (IF ask THEN <<"GetUsersInfo">> ELSE <<>>)
    IN IF fetchChannels /\ ~apiOk.channels
       THEN Called(<<"GetChannels">>,
                   Result(<<>>, "failed to load channels", FALSE, e))
       ELSE IF fetchDMs /\ ~apiOk.dms
       THEN Called((IF fetchChannels THEN <<"GetChannels">> ELSE <<>>) \o <<"GetDMs">>,
                   Result(<<>>, "failed to load DMs", FALSE,
                          [e EXCEPT !.channels = channels]))
       ELSE Called(made,
               Result(IF dmOnly THEN FormatDMList(dms, userNames)
                      ELSE FormatChannelList(channels, dms, userNames),
                      "", FALSE,
                      [e EXCEPT !.channels = channels, !.dms = dms,
                                !.userNames = userNames]))

\* strings.Join(elems, " ")
RECURSIVE JoinSpace(_)
JoinSpace(elems) ==
    IF Len(elems) = 0 THEN <<>>
    ELSE IF Len(elems) = 1 THEN elems[1]
    ELSE elems[1] \o <<" ">> \o JoinSpace(Tail(elems))

\* Command.RawArgs ("" for a Command built without it)
RawArgsOf(cmd) == IF "RawArgs" \in DOMAIN cmd THEN cmd.RawArgs ELSE <<>>

\* Executor.executeSend: result is what it returns, call the text handed to
\* client.PostMessage (<<>> when no call is made)
executeSend(e, cmd, apiOk) ==
    IF e.currentChannel = <<>>
    THEN [result |-> Result(<< <<"N", "o", "t", " ", "i", "n", " ", "a", " ", "c", "h", "a", "n", "n", "e", "l", ".">> >>, "", FALSE, e), call |-> <<>>]
    ELSE LET message == IF RawArgsOf(cmd) = <<>> /\ Len(cmd.Args) > 0
                        THEN JoinSpace(cmd.Args)
                        ELSE RawArgsOf(cmd)
         IN IF message = <<>>
            THEN [result |-> Result(<< <<"U", "s", "a", "g", "e", ":", " ", "s", "e", "n", "d", " ", "<", "m", "e", "s", "s", "a", "g", "e", ">">> >>, "", FALSE, e),
                  call |-> <<>>]
            ELSE [result |-> IF apiOk.post
                             THEN Result(<< <<"M", "e", "s", "s", "a", "g", "e", " ", "s", "e", "n", "t", ".">> >>, "", FALSE, e)
                             ELSE Result(<<>>, "failed to send message", FALSE, e),
                  call |-> <<message>>]

\* The configuration files a source command may name, by path: the client each
\* gives.  Any other path fails to load.
ConfigFiles == (<<"w", "1", ".", "y", "a", "m", "l">> :> WorkspaceClient) @@ (<<"w", "2", ".", "y", "a", "m", "l">> :> ExampleClient)

\* Executor.executeSource: the Executor is not touched
executeSource(e, cmd) ==
    IF Len(cmd.Args) = 0
    THEN Result(<< <<"U", "s", "a", "g", "e", ":", " ", "s", "o", "u", "r", "c", "e", " ", "<", "c", "o", "n", "f", "i", "g", "-", "f", "i", "l", "e", "-", "p", "a", "t", "h", ">">> >>, "", FALSE, e)
    ELSE IF cmd.Args[1] \notin DOMAIN ConfigFiles
    THEN Result(<<>>, "failed to load config", FALSE, e)
    ELSE [Result(<<>>, "", FALSE, e) EXCEPT
             !.SwitchWorkspace = <<ConfigFiles[cmd.Args[1]]>>]

\* Executor.SwitchClient without the reset of the lists and of the names
SwitchClient_KeepLists(e, client) ==
    [e EXCEPT !.client = client, !.currentChannel = <<>>]

\* Executor.SwitchClient
SwitchClient(e, client) ==
    [client |-> client, channels |-> <<>>, dms |-> <<>>,
     userNames |-> NoUserNames, currentChannel |-> <<>>]

\* Executor.Execute, for the verbs of Inputs and of the lines typed (cat and pwd are
\* not among them)
Execute(e, cmd, apiOk) ==
    CASE cmd.Type = "CmdLs" -> executeLs(e, cmd, apiOk)
      [] cmd.Type = "CmdCd" -> executeCd(e, cmd, apiOk)
      [] cmd.Type = "CmdBack" -> executeBack(e)
      [] cmd.Type = "CmdSend" -> executeSend(e, cmd, apiOk).result
      [] cmd.Type = "CmdHelp" -> Result(<< <<"h", "e", "l", "p">> >>, "", FALSE, e)
      [] cmd.Type = "CmdExit" -> Result(<<>>, "", TRUE, e)
      [] cmd.Type = "CmdSource" -> executeSource(e, cmd)
      [] OTHER -> Result(<< <<"U", "n", "k", "n", "o", "w", "n">> >>, "", FALSE, e)

\* Executor.executeGrep without the lower-casing
executeGrep_CaseSensitive(cmd, lines) ==
    IF Len(cmd.Args) = 0 THEN lines
    ELSE LET Matches(line) == Contains(line, cmd.Args[1])
             matched == SelectSeq(lines, Matches)
         IN IF Len(matched) = 0
            THEN << <<"N", "o", " ", "m", "a", "t", "c", "h", "e", "s", " ", "f", "o", "u", "n", "d", ".">> >>
            ELSE matched

\* Executor.executeGrep
executeGrep(cmd, lines) ==
    IF Len(cmd.Args) = 0 THEN lines
    ELSE LET pattern == ToLower(cmd.Args[1])
             Matches(line) == Contains(ToLower(line), ToLower(pattern))
             matched == SelectSeq(lines, Matches)
         IN IF Len(matched) = 0
            THEN << <<"N", "o", " ", "m", "a", "t", "c", "h", "e", "s", " ", "f", "o", "u", "n", "d", ".">> >>
            ELSE matched

RECURSIVE PipeThrough(_, _, _, _)
\* The loop of ExecutePipeline over the stages from the i-th on
PipeThrough(currentOutput, cmds, i, e) ==
    IF i > Len(cmds) THEN Result(currentOutput, "", FALSE, e)
    ELSE IF cmds[i].Type = "CmdGrep"
         THEN PipeThrough(executeGrep(cmds[i], currentOutput), cmds, i + 1, e)
         ELSE Result(<<>>, "cannot pipe", FALSE, e)

\* The stages after the first returning what the stages before the failing one
\* produced
PipeRest_Partial(result, piped, cmds) ==
    IF result.Error # "" \/ result.Exit \/ Len(cmds) = 1 THEN result
    ELSE IF piped.Error # ""
    THEN Called(result.Calls, [piped EXCEPT !.Output = result.Output])
    ELSE Called(result.Calls, piped)

\* The stages after the first of ExecutePipeline_Partial
PipeFrom_Partial(result, cmds) ==
    PipeRest_Partial(result, PipeThrough(result.Output, cmds, 2, result.e), cmds)

\* Executor.ExecutePipeline returning what the stages before the failing one
\* produced
ExecutePipeline_Partial(e, cmds, apiOk) ==
    IF Len(cmds) = 0 THEN Result(<<>>, "", FALSE, e)
    ELSE PipeFrom_Partial(Execute(e, cmds[1], apiOk), cmds)

\* The stages of ExecutePipeline after the first, whose result is result
PipeFrom(result, cmds) ==
    IF result.Error # "" \/ result.Exit \/ Len(cmds) = 1 THEN result
    ELSE Called(result.Calls, PipeThrough(result.Output, cmds, 2, result.e))

\* Executor.ExecutePipeline
ExecutePipeline(e, cmds, apiOk) ==
    IF Len(cmds) = 0 THEN Result(<<>>, "", FALSE, e)
    ELSE PipeFrom(Execute(e, cmds[1], apiOk), cmds)

\* Executor.GetChannelName
GetChannelName(e, channelID) ==
    IF \E i \in 1..Len(e.channels) : e.channels[i].ID = channelID
    THEN e.channels[CHOOSE i \in 1..Len(e.channels) : e.channels[i].ID = channelID].Name
    ELSE IF \E i \in 1..Len(e.dms) : e.dms[i].ID = channelID
    THEN LET dm == e.dms[CHOOSE i \in 1..Len(e.dms) : e.dms[i].ID = channelID]
         IN IF dm.UserID \in DOMAIN e.userNames THEN e.userNames[dm.UserID]
            ELSE dm.UserID
    ELSE channelID

\* Executor.IsMentionedInMessage
IsMentionedInMessage(text) ==
    \/ Contains(text, <<"<", "!", "h", "e", "r", "e", ">">>)
    \/ Contains(text, <<"<", "!", "c", "h", "a", "n", "n", "e", "l", ">">>)
    \/ Contains(text, <<"<", "!", "e", "v", "e", "r", "y", "o", "n", "e", ">">>)

(***************************************************************************)
(* shell.Model                                                             *)
(***************************************************************************)

\* The channel a cd entered, first being what the Executor returned for the first
\* stage of the line, else NoChannel.
EnteredBy(line, first) ==
    IF /\ line.cmds[1].Type = "CmdCd"
       /\ Len(line.cmds[1].Args) > 0
       /\ first.Error = ""
       /\ first.e.currentChannel # <<>>
    THEN first.e.currentChannel[1].ID
    ELSE NoChannel

\* The channel a successful cd of the line's first stage entered, else NoChannel.
CdEntered(e, line, apiOk) == EnteredBy(line, Execute(e, line.cmds[1], apiOk))

\* The channel entered by the command, or the one entered before it
Latest(entered, before) == IF entered # NoChannel THEN entered ELSE before

RECURSIVE RunInitCommands(_, _, _, _)
\* The loop of Model.Init over init_commands: the Executor after the commands from
\* the i-th on, and the channel the last successful cd among them entered.
RunInitCommands(state, commands, i, apiOk) ==
    IF i > Len(commands) THEN state
    ELSE RunInitCommands(
            [e |-> ExecutePipeline(state.e, commands[i].cmds, apiOk).e,
             entered |-> Latest(CdEntered(state.e, commands[i], apiOk), state.entered)],
            commands, i + 1, apiOk)

\* Model.Init
ModelInit ==
    /\ phase = "new"
    /\ \E commands \in InitCommandLists, apiOk \in ApiUniform :
          LET done == RunInitCommands([e |-> executor, entered |-> NoChannel],
                                      commands, 1, apiOk)
          IN /\ executor' = done.e
             /\ op' = [name |-> "Init", entered |-> done.entered]
    /\ phase' = "run"
    /\ calls' = <<>>
    /\ UNCHANGED <<managerVars, browseMode, liveMode, realtime, threadVars, cacheState, viewVars>>

\* Model.Update on an IncomingMessageMsg.  The live and browse views take the message
\* into their own lists, which are not part of this state.
IncomingMessageMsg ==
    /\ phase = "run"
    /\ realtime
    /\ \E channelID \in ChannelIDs, userID \in Senders, text \in Texts :
          IF userID # CurrentUserID
          THEN LET currentChannelID == CurrentChannelID(executor)
                   channelName == GetChannelName(executor, channelID)
                   notifyMsg == Message(channelID, channelName, IsMentionedInMessage(text))
                   inTailMode == browseMode \/ liveMode
               IN /\ \/ Filtered(notifyMsg, currentChannelID, inTailMode)
                     \/ Count(unreadCount, channelID) < MaxUnread
                  /\ HandleMessage(notifyMsg, currentChannelID, inTailMode)
                  /\ op' = [name |-> "HandleMessage", msg |-> notifyMsg,
                            currentChannelID |-> currentChannelID,
                            inTailMode |-> inTailMode]
          ELSE /\ calls' = <<>>
               /\ op' = [name |-> "IncomingMessageMsg"]
               /\ UNCHANGED <<unreadCount, title, visual>>
    /\ UNCHANGED <<cfg, shellVars, threadVars, cacheState, viewVars>>

\* Model.startBrowseMode
startBrowseMode ==
    /\ browseMode' = (executor.currentChannel # <<>>)
    /\ UNCHANGED <<executor, liveMode, phase>>

\* Model.startLiveMode without the test of the real-time client
startLiveMode_AnyClient ==
    /\ liveMode' = (executor.currentChannel # <<>>)
    /\ UNCHANGED <<executor, browseMode, phase>>

\* Model.startLiveMode
startLiveMode ==
    /\ liveMode' = (executor.currentChannel # <<>> /\ realtime)
    /\ UNCHANGED <<executor, browseMode, phase>>

\* What Model.executeCommand does with a non-empty line once it is parsed and
\* executed, to all but the typed text: input.pipe is what IsPipeline returned,
\* input.cmds the stages (the one Command of a line that is no pipeline), result
\* what the Executor returned
applyResult(input, result) ==
    LET parsedCmd == IF input.pipe THEN ZeroCommand ELSE input.cmds[1]
    IN IF ~input.pipe /\ parsedCmd.Type = "CmdBrowse"
       THEN /\ startBrowseMode
            /\ calls' = <<>>
            /\ UNCHANGED <<unreadCount, title>>
       ELSE IF ~input.pipe /\ parsedCmd.Type = "CmdLive"
       THEN /\ startLiveMode
            /\ calls' = <<>>
            /\ UNCHANGED <<unreadCount, title>>
       ELSE /\ executor' = IF /\ ~result.Exit
                               /\ result.Error = ""
                               /\ result.SwitchWorkspace # <<>>
                            THEN SwitchClient(result.e, result.SwitchWorkspace[1])
                            ELSE result.e
            /\ phase' = IF result.Exit THEN "quit" ELSE phase
            /\ UNCHANGED <<browseMode, liveMode>>
            /\ IF /\ ~result.Exit
                  /\ result.Error = ""
                  /\ Len(result.Output) > 0
                  /\ parsedCmd.Type = "CmdCd"
                  /\ result.e.currentChannel # <<>>
               THEN ClearUnread(result.e.currentChannel[1].ID)
               ELSE /\ calls' = <<>>
                    /\ UNCHANGED <<unreadCount, title>>

\* Model.executeCommand from the call of the Executor on
executeCommandOn(input, apiOk) ==
    applyResult(input,
                IF input.pipe THEN ExecutePipeline(executor, input.cmds, apiOk)
                ELSE Execute(executor, input.cmds[1], apiOk))

\* Model.executeCommand on a non-empty line (the Enter key in normal mode)
executeCommand ==
    /\ phase = "run"
    /\ ~browseMode /\ ~liveMode
    /\ \E input \in Inputs, apiOk \in ApiUniform :
          /\ op' = [name |-> "executeCommand",
                    entered |-> CdEntered(executor, input, apiOk)]
          /\ executeCommandOn(input, apiOk)
    /\ UNCHANGED <<cfg, visual, realtime, threadVars, cacheState, viewVars>>

\* Model.Update on the key that leaves the browse or the live view (ShouldExit)
ExitSubMode ==
    /\ phase = "run"
    /\ browseMode \/ liveMode
    /\ liveMode' = FALSE
    /\ browseMode' = (liveMode /\ browseMode)
    /\ op' = [name |-> "ExitSubMode"]
    /\ calls' = <<>>
    /\ UNCHANGED <<managerVars, executor, phase, realtime, threadVars, cacheState, viewVars>>

(***************************************************************************)
(* The Manager called from several threads                                 *)
(***************************************************************************)

\* The threads that call the Manager.
Threads == {1, 2}

\* A thread outside any call.
Idle == [pc |-> "idle", call |-> "", msg |-> Message(NoChannel, NoChannel, FALSE),
         totalUnread |-> 0]

\* A thread calls HandleMessage: the four filters run before the lock is taken
ThreadHandleMessage(t) ==
    /\ threads[t].pc = "idle"
    /\ \E channelID \in ChannelIDs, currentChannelID \in ChannelIDs \cup {NoChannel},
          inTailMode \in BOOLEAN :
          LET msg == Message(channelID, channelID, FALSE)
          IN /\ threads' = IF Filtered(msg, currentChannelID, inTailMode) THEN threads
                           ELSE [threads EXCEPT ![t] =
                                    [pc |-> "lock", call |-> "HandleMessage",
                                     msg |-> msg, totalUnread |-> 0]]
             /\ op' = [name |-> "HandleMessage", msg |-> msg,
                       currentChannelID |-> currentChannelID,
                       inTailMode |-> inTailMode]
    /\ calls' = <<>>
    /\ UNCHANGED <<managerVars, mu, shellVars, cacheState, viewVars>>

\* A thread calls ClearUnread
ThreadClearUnread(t) ==
    /\ threads[t].pc = "idle"
    /\ \E channelID \in ChannelIDs :
          threads' = [threads EXCEPT ![t] =
                         [pc |-> "lock", call |-> "ClearUnread",
                          msg |-> Message(channelID, channelID, FALSE),
                          totalUnread |-> 0]]
    /\ op' = [name |-> "ClearUnread"]
    /\ calls' = <<>>
    /\ UNCHANGED <<managerVars, mu, shellVars, cacheState, viewVars>>

\* m.mu.Lock()
ThreadLock(t) ==
    /\ threads[t].pc = "lock"
    /\ mu = 0
    /\ \/ threads[t].call = "ClearUnread"
       \/ Count(unreadCount, threads[t].msg.ChannelID) < MaxUnread
    /\ mu' = t
    /\ threads' = [threads EXCEPT ![t].pc = "locked"]
    /\ op' = [name |-> "Lock"]
    /\ calls' = <<>>
    /\ UNCHANGED <<managerVars, shellVars, cacheState, viewVars>>

\* The statements between m.mu.Lock() and m.mu.Unlock(), and the Unlock
ThreadCount(t) ==
    /\ threads[t].pc = "locked"
    /\ mu = t
    /\ LET counts == IF threads[t].call = "HandleMessage"
                     THEN Incr(unreadCount, threads[t].msg.ChannelID)
                     ELSE Delete(unreadCount, threads[t].msg.ChannelID)
       IN /\ unreadCount' = counts
          /\ threads' = [threads EXCEPT ![t].pc = "title",
                                        ![t].totalUnread = getTotalUnreadLocked(counts)]
    /\ mu' = 0
    /\ op' = [name |-> "Unlock"]
    /\ calls' = <<>>
    /\ UNCHANGED <<cfg, title, visual, shellVars, cacheState, viewVars>>

\* The sink calls up to m.title.UpdateUnreadCount(totalUnread), after the Unlock
ThreadTitle(t) ==
    /\ threads[t].pc = "title"
    /\ title' = IF cfg.Title.Enabled THEN UpdateUnreadCount(title, threads[t].totalUnread)
                ELSE title
    /\ calls' = IF cfg.Title.Enabled THEN <<Call("title", threads[t].totalUnread)>>
                ELSE <<>>
    /\ threads' = IF threads[t].call = "HandleMessage"
                  THEN [threads EXCEPT ![t].pc = "visual"]
                  ELSE [threads EXCEPT ![t] = Idle]
    /\ op' = [name |-> "UpdateUnreadCount"]
    /\ UNCHANGED <<cfg, unreadCount, visual, mu, shellVars, cacheState, viewVars>>

\* m.visual.Notify(msg), and HandleMessage returns
ThreadVisual(t) ==
    /\ threads[t].pc = "visual"
    /\ visual' = IF cfg.Visual.Enabled THEN VisualNotify(visual, threads[t].msg)
                 ELSE visual
    /\ calls' = IF cfg.Visual.Enabled THEN <<Call("visual", 0)>> ELSE <<>>
    /\ threads' = [threads EXCEPT ![t] = Idle]
    /\ op' = [name |-> "Notify"]
    /\ UNCHANGED <<cfg, unreadCount, title, mu, shellVars, cacheState, viewVars>>

(***************************************************************************)
(* ui.LiveModel: the live view of a channel, and what feeds it             *)
(***************************************************************************)

\* The channel the live view is opened on.
LiveChannel == "C1"

\* The channel whose messages raise the notifications of the live view.
OtherChannel == "C2"

\* slack.Message, as far as the live view reads it.  Timestamps are numbered in the
\* order Slack issues them.
SlackMessage(ts, user, text) == [Timestamp |-> ts, User |-> user, Text |-> text]

\* slack.IncomingMessage: a top-level message (ThreadTS empty) of the stream
IncomingMessage(channelID, msg) == [ChannelID |-> channelID, msg |-> msg]

Max(a, b) == IF a >= b THEN a ELSE b

Min(a, b) == IF a <= b THEN a ELSE b

\* s[lo:hi] of Go, on a sequence: the elements of indices lo .. hi-1, counted from 0
Slice(s, lo, hi) == SubSeq(s, lo + 1, hi)

\* The last n elements of s, all of them if it has fewer.
Tail2(s, n) == SubSeq(s, Max(1, Len(s) - n + 1), Len(s))

\* The history of the live channel when the view opens: HistoryLen messages, the
\* newest one written by the user.
InitHistory ==
    [i \in 1..HistoryLen |->
        SlackMessage(i, IF i = HistoryLen THEN CurrentUserID ELSE "U2", <<"h", "i">>)]

\* Slack as the view's channel stands on it: the history, oldest first, the next
\* timestamp to issue, and the messages sent to the other channel.
InitServer == [history |-> InitHistory, next |-> HistoryLen + 1, other |-> 0]

\* conversations.history as GetMessagesWithPagination asks for it: the newest limit
\* messages older than latest (0: no latest), and whether older ones remain.  The
\* function returns them oldest first.
GetMessagesWithPagination(history, limit, latest) ==
    LET Older(msg) == latest = 0 \/ msg.Timestamp < latest
        older == SelectSeq(history, Older)
    IN [Messages |-> Tail2(older, limit), HasMore |-> Len(older) > limit]

\* A command the view has scheduled: its kind, the timestamp and text it carries,
\* whether the loop has handled another event since (overtaken, kept for the fetch
\* of an older page) and, once it has run (done), the result message it will hand
\* to Update.
Task(kind, ts, text) ==
    [kind |-> kind, ts |-> ts, text |-> text, done |-> FALSE, overtaken |-> FALSE,
     Messages |-> <<>>, HasMore |-> FALSE, Err |-> FALSE]

\* tea.Cmd nil: the handler scheduled nothing
NoCmd == <<>>

\* LiveModel.getVisibleLines
getVisibleLines == IF Height - 6 < 1 THEN 1 ELSE Height - 6

\* LiveModel.getTotalLinesInRange; every message of the model fills one line
getTotalLinesInRange(messages, startIdx, endIdx) ==
    Max(0, Min(endIdx, Len(messages)) - startIdx)

\* LiveModel.ensureVisible: the scroll offset it leaves
ensureVisible(messages, selectedIndex, scrollOffset) ==
    IF selectedIndex < scrollOffset THEN selectedIndex
    ELSE IF getTotalLinesInRange(messages, scrollOffset, selectedIndex + 1)
                > getVisibleLines
         THEN Max(0, selectedIndex - (getVisibleLines - 1))
         ELSE scrollOffset

\* The empty map make(map[string]string)
NoNames == [k \in {} |-> <<>>]

\* NewLiveModel: the view of LiveChannel before its first load has come back.  view
\* tells the LiveModel values of a session apart (the pointer startLiveMode stores):
\* it counts the views opened so far.
NewLiveModel ==
    [channelID |-> LiveChannel,
     messages |-> <<>>,
     selectedIndex |-> 0,
     scrollOffset |-> 0,
     loading |-> TRUE,
     loadingOlder |-> FALSE,
     hasMoreMessages |-> FALSE,
     deleteConfirm |-> FALSE,
     inputMode |-> "InputModeNone",
     editTS |-> 0,
     inputText |-> <<>>,
     channelMembers |-> <<>>,
     userCache |-> NoNames,
     membersLoaded |-> FALSE,
     mentionActive |-> FALSE,
     mentionCandidates |-> <<>>,
     mentionIndex |-> 0,
     mentionPrefix |-> <<>>,
     notifications |-> <<>>,
     showNotifyPanel |-> FALSE,
     notifyPanelIndex |-> 0,
     peekMode |-> FALSE,
     peekChannelID |-> "",
     peekLoading |-> FALSE,
     peekMessages |-> <<>>,
     peekSelectedIndex |-> 0,
     peekScrollOffset |-> 0,
     originalChannelID |-> "",
     originalMessages |-> <<>>,
     originalScrollOffset |-> 0,
     originalSelectedIndex |-> 0,
     shared |-> FALSE,
     threadVisible |-> FALSE,
     threadTS |-> 0,
     threadMessages |-> <<>>,
     view |-> 0]

\* No peek entered yet.
NoEntry == [active |-> FALSE]

\* No live view: nothing on screen, nothing in flight, nothing typed.
ViewAside ==
    /\ live = NewLiveModel
    /\ server = InitServer
    /\ stream = <<>>
    /\ tasks = <<>>
    /\ peeked = NoEntry
    /\ prompt = <<>>

\* What m.originalMessages holds after a write through m.messages, while both slices
\* share one backing array: messages is the slice after the write.
Aliased(original, messages) ==
    [k \in 1..Len(original) |->
        IF k <= Len(messages) THEN messages[k] ELSE original[k]]

\* m.messages rewritten in its backing array (an element assigned, or an append
\* within the capacity): enterPeekMode's copy of the slice header sees the write.
InPlace(m, messages) ==
    [m EXCEPT !.messages = messages,
              !.originalMessages =
                  IF m.shared THEN Aliased(m.originalMessages, messages)
                  ELSE m.originalMessages]

\* m.messages set to a slice with a backing array of its own.
Fresh(m, messages) == [m EXCEPT !.messages = messages, !.shared = FALSE]

\* The index, from 0, of the first message with the timestamp; -1 if there is none.
IndexOfTs(messages, ts) ==
    LET hits == {i \in 1..Len(messages) : messages[i].Timestamp = ts}
    IN IF hits = {} THEN -1
       ELSE (CHOOSE i \in hits : \A j \in hits : i <= j) - 1

\* LiveModel.Update on a LiveMessagesLoadedMsg
LiveMessagesLoaded(m, msg) ==
    LET m1 == [m EXCEPT !.loading = FALSE]
    IN IF msg.Err THEN m1
       ELSE LET m2 == [Fresh(m1, msg.Messages) EXCEPT !.hasMoreMessages = msg.HasMore]
            IN IF Len(m2.messages) > 0
               THEN LET sel == Len(m2.messages) - 1
                    IN [m2 EXCEPT !.selectedIndex = sel,
                                  !.scrollOffset =
                                      ensureVisible(m2.messages, sel, m2.scrollOffset)]
               ELSE m2

\* LiveModel.Update on a LiveOlderMessagesLoadedMsg, with the second and third
\* assignments adding something else than len(msg.Messages)
LiveOlderMessagesLoaded_NoShift(m, msg) ==
    LET m1 == [m EXCEPT !.loadingOlder = FALSE]
    IN IF msg.Err THEN m1
       ELSE IF Len(msg.Messages) > 0
       THEN [Fresh(m1, msg.Messages \o m1.messages) EXCEPT
                !.hasMoreMessages = msg.HasMore,
                !.selectedIndex = m1.selectedIndex + 1,
                !.scrollOffset = m1.scrollOffset + 1]
       ELSE [m1 EXCEPT !.hasMoreMessages = FALSE]

\* LiveModel.Update on a LiveOlderMessagesLoadedMsg
LiveOlderMessagesLoaded(m, msg) ==
    LET m1 == [m EXCEPT !.loadingOlder = FALSE]
    IN IF msg.Err THEN m1
       ELSE IF Len(msg.Messages) > 0
       THEN [Fresh(m1, msg.Messages \o m1.messages) EXCEPT
                !.hasMoreMessages = msg.HasMore,
                !.selectedIndex = m1.selectedIndex + Len(msg.Messages),
                !.scrollOffset = m1.scrollOffset + Len(msg.Messages)]
       ELSE [m1 EXCEPT !.hasMoreMessages = FALSE]

\* LiveModel.Update on a LiveMessageDeletedMsg
LiveMessageDeleted(m, msg) ==
    LET i == IndexOfTs(m.messages, msg.ts)
    IN IF msg.Err \/ i < 0 THEN m
       ELSE LET messages == Slice(m.messages, 0, i)
                                \o Slice(m.messages, i + 1, Len(m.messages))
                m1 == InPlace(m, messages)
            IN IF m1.selectedIndex >= Len(messages) /\ m1.selectedIndex > 0
               THEN [m1 EXCEPT !.selectedIndex = m1.selectedIndex - 1]
               ELSE m1

\* LiveModel.Update on a LiveMessageEditedMsg
LiveMessageEdited(m, msg) ==
    LET i == IndexOfTs(m.messages, msg.ts)
    IN IF msg.Err \/ i < 0 THEN m
       ELSE InPlace(m, [m.messages EXCEPT ![i + 1].Text = msg.text])

\* LiveModel.Update on a PeekMessagesLoadedMsg
PeekMessagesLoaded(m, msg) ==
    LET m1 == [m EXCEPT !.peekLoading = FALSE]
    IN IF msg.Err THEN m1
       ELSE LET m2 == [m1 EXCEPT !.peekMessages = msg.Messages]
            IN IF Len(m2.peekMessages) > 0
               THEN LET sel == Len(m2.peekMessages) - 1
                    IN [m2 EXCEPT !.peekSelectedIndex = sel,
                                  !.peekScrollOffset =
                                      ensureVisible(m2.peekMessages, sel,
                                                    m2.peekScrollOffset)]
               ELSE m2

\* LiveModel.AddIncomingMessage for a top-level message.  grow tells whether append
\* found no room in the backing array and moved the slice to a new one.
AddIncomingMessage(m, channelID, newMsg, grow) ==
    IF channelID # m.channelID THEN m
    ELSE LET messages == Append(m.messages, newMsg)
             m1 == IF grow THEN Fresh(m, messages) ELSE InPlace(m, messages)
         IN IF m1.selectedIndex = Len(messages) - 2
            THEN LET sel == Len(messages) - 1
                 IN [m1 EXCEPT !.selectedIndex = sel,
                               !.scrollOffset =
                                   ensureVisible(messages, sel, m1.scrollOffset)]
            ELSE m1

\* LiveModel.AddPeekIncomingMessage for a top-level message
AddPeekIncomingMessage(m, channelID, newMsg) ==
    IF ~m.peekMode \/ channelID # m.peekChannelID THEN m
    ELSE LET messages == Append(m.peekMessages, newMsg)
             m1 == [m EXCEPT !.peekMessages = messages]
         IN IF m1.peekSelectedIndex = Len(messages) - 2
            THEN LET sel == Len(messages) - 1
                 IN [m1 EXCEPT !.peekSelectedIndex = sel,
                               !.peekScrollOffset =
                                   ensureVisible(messages, sel, m1.peekScrollOffset)]
            ELSE m1

\* ui.NotificationItem
NotificationItem(channelID, count) == [ChannelID |-> channelID, Count |-> count]

\* The index, from 0, of the first notification of the channel; -1 if there is none.
NotificationOf(notifications, channelID) ==
    LET hits == {i \in 1..Len(notifications) : notifications[i].ChannelID = channelID}
    IN IF hits = {} THEN -1
       ELSE (CHOOSE i \in hits : \A j \in hits : i <= j) - 1

\* LiveModel.AddNotification
AddNotification(m, channelID) ==
    LET i == NotificationOf(m.notifications, channelID)
    IN IF i >= 0
       THEN [m EXCEPT !.notifications[i + 1].Count = @ + 1]
       ELSE [m EXCEPT !.notifications = Append(@, NotificationItem(channelID, 1))]

\* LiveModel.ClearNotification
ClearNotification(m, channelID) ==
    LET i == NotificationOf(m.notifications, channelID)
    IN IF i < 0 THEN m
       ELSE [m EXCEPT !.notifications =
                Slice(@, 0, i) \o Slice(@, i + 1, Len(@))]

\* enterPeekMode leaving the entry of the conversation in the panel list.
enterPeekMode_KeepEntry(m, channelID) ==
    [m |-> [m EXCEPT !.originalChannelID = m.channelID,
                     !.originalMessages = m.messages,
                     !.originalScrollOffset = m.scrollOffset,
                     !.originalSelectedIndex = m.selectedIndex,
                     !.shared = TRUE,
                     !.peekMode = TRUE,
                     !.peekChannelID = channelID,
                     !.peekLoading = TRUE,
                     !.peekMessages = <<>>,
                     !.peekSelectedIndex = 0,
                     !.peekScrollOffset = 0,
                     !.showNotifyPanel = FALSE],
     cmd |-> <<Task("peek", 0, <<>>)>>]

\* LiveModel.enterPeekMode: the view it leaves and the command it returns.  The
\* saved slice is the header of m.messages, not a copy of its elements.
enterPeekMode(m, channelID) ==
    LET m1 == [m EXCEPT !.originalChannelID = m.channelID,
                        !.originalMessages = m.messages,
                        !.originalScrollOffset = m.scrollOffset,
                        !.originalSelectedIndex = m.selectedIndex,
                        !.shared = TRUE,
                        !.peekMode = TRUE,
                        !.peekChannelID = channelID,
                        !.peekLoading = TRUE,
                        !.peekMessages = <<>>,
                        !.peekSelectedIndex = 0,
                        !.peekScrollOffset = 0,
                        !.showNotifyPanel = FALSE]
    IN [m |-> ClearNotification(m1, channelID),
        cmd |-> <<Task("peek", 0, <<>>)>>]

\* LiveModel.exitPeekMode
exitPeekMode(m) ==
    [m EXCEPT !.peekMode = FALSE,
              !.peekChannelID = "",
              !.peekMessages = <<>>,
              !.peekLoading = FALSE,
              !.messages = m.originalMessages,
              !.scrollOffset = m.originalScrollOffset,
              !.selectedIndex = m.originalSelectedIndex,
              !.originalMessages = <<>>,
              !.shared = FALSE]

\* unicode.IsSpace, on the characters the model types
IsSpace(r) == r \in {" ", "\n", "\t"}

RECURSIVE TrimLeft(_)
TrimLeft(s) == IF s # <<>> /\ IsSpace(Head(s)) THEN TrimLeft(Tail(s)) ELSE s

RECURSIVE TrimRight(_)
TrimRight(s) ==
    IF s # <<>> /\ IsSpace(s[Len(s)]) THEN TrimRight(SubSeq(s, 1, Len(s) - 1)) ELSE s

\* strings.TrimSpace
TrimSpace(s) == TrimRight(TrimLeft(s))

\* The members of the live channel as conversations.members lists them.
ChannelMembers == <<"U2", "U3", "U4", "U5", CurrentUserID>>

\* The names users.info resolves: it has none for U5, and nobody asks it for the
\* user's own name before the member list is loaded.
UserNames ==
    [id \in {"U2", "U3", "U4"} |->
        CASE id = "U2" -> <<"a", "l", "i", "c", "e">>
          [] id = "U3" -> <<"a", "l", "b", "e", "r", "t">>
          [] id = "U4" -> <<"B", "o", "b">>]

\* mentionCandidate
MentionCandidate(userID, userName) == [UserID |-> userID, UserName |-> userName]

RECURSIVE ScanMention(_, _)
\* The backward loop of updateMentionCompletion and completeMention from index i
\* (from 0) down: the index of the '@' it stops at, -1 if it meets white space or
\* the start of the text first.
ScanMention(runes, i) ==
    IF i < 0 THEN -1
    ELSE IF runes[i + 1] = "@" THEN i
    ELSE IF runes[i + 1] \in {" ", "\n", "\t"} THEN -1
    ELSE ScanMention(runes, i - 1)

RECURSIVE BuildCandidates(_, _, _, _, _)
\* The loop of updateMentionCompletion over m.channelMembers from the i-th on.
BuildCandidates(members, userCache, prefix, i, candidates) ==
    IF i > Len(members) THEN candidates
    ELSE IF members[i] \notin DOMAIN userCache
    THEN BuildCandidates(members, userCache, prefix, i + 1, candidates)
    ELSE LET userName == userCache[members[i]]
             added == IF prefix = <<>> \/ HasPrefix(ToLower(userName), prefix)
                      THEN Append(candidates, MentionCandidate(members[i], userName))
                      ELSE candidates
         IN IF Len(added) >= MentionLimit THEN added
            ELSE BuildCandidates(members, userCache, prefix, i + 1, added)

\* LiveModel.updateMentionCompletion, matching the prefix as it was typed
updateMentionCompletion_CaseSensitive(m) ==
    LET runes == m.inputText
        mentionStart == ScanMention(runes, Len(runes) - 1)
    IN IF mentionStart = -1
       THEN [m EXCEPT !.mentionActive = FALSE, !.mentionCandidates = <<>>]
       ELSE LET prefix == Slice(runes, mentionStart + 1, Len(runes))
                candidates == BuildCandidates(m.channelMembers, m.userCache,
                                              prefix, 1, <<>>)
                active == Len(candidates) > 0
            IN [m EXCEPT !.mentionPrefix = prefix,
                         !.mentionCandidates = candidates,
                         !.mentionActive = active,
                         !.mentionIndex =
                             IF active /\ @ >= Len(candidates) THEN 0 ELSE @]

\* LiveModel.updateMentionCompletion
updateMentionCompletion(m) ==
    LET runes == m.inputText
        mentionStart == ScanMention(runes, Len(runes) - 1)
    IN IF mentionStart = -1
       THEN [m EXCEPT !.mentionActive = FALSE, !.mentionCandidates = <<>>]
       ELSE LET prefix == ToLower(Slice(runes, mentionStart + 1, Len(runes)))
                candidates == BuildCandidates(m.channelMembers, m.userCache,
                                              prefix, 1, <<>>)
                active == Len(candidates) > 0
            IN [m EXCEPT !.mentionPrefix = prefix,
                         !.mentionCandidates = candidates,
                         !.mentionActive = active,
                         !.mentionIndex =
                             IF active /\ @ >= Len(candidates) THEN 0 ELSE @]

\* LiveModel.completeMention
completeMention(m) ==
    IF ~m.mentionActive \/ Len(m.mentionCandidates) = 0 THEN m
    ELSE LET candidate == m.mentionCandidates[m.mentionIndex + 1]
             runes == m.inputText
             mentionStart == ScanMention(runes, Len(runes) - 1)
         IN IF mentionStart = -1 THEN m
            ELSE [m EXCEPT !.inputText = Slice(runes, 0, mentionStart)
                                             \o <<"@">> \o candidate.UserName
                                             \o <<" ">>,
                           !.mentionActive = FALSE,
                           !.mentionCandidates = <<>>]

\* What a handler of Update returns: the model and the commands to schedule.
Ret(m, cmd) == [m |-> m, cmd |-> cmd]

\* LiveModel.Update on a LiveMembersLoadedMsg
LiveMembersLoaded(m, msg) ==
    IF msg.Err THEN m
    ELSE LET merged == [id \in DOMAIN m.userCache \cup DOMAIN msg.UserNames |->
                           IF id \in DOMAIN msg.UserNames THEN msg.UserNames[id]
                           ELSE m.userCache[id]]
             m1 == [m EXCEPT !.channelMembers = msg.Members,
                             !.userCache = merged,
                             !.membersLoaded = TRUE]
         IN IF m1.inputMode # "InputModeNone" THEN updateMentionCompletion(m1)
            ELSE m1

\* The keys with a name; any other key is the character it types.
NamedKeys == {"tab", "up", "down", "esc", "enter"}

\* The input-mode branch of LiveModel.Update on a KeyMsg (the send key is Enter)
handleInputKey(m, key) ==
    IF m.mentionActive /\ key = "tab" THEN Ret(completeMention(m), NoCmd)
    ELSE IF m.mentionActive /\ key = "up"
    THEN Ret([m EXCEPT !.mentionIndex =
                 IF @ > 0 THEN @ - 1 ELSE Len(m.mentionCandidates) - 1], NoCmd)
    ELSE IF m.mentionActive /\ key = "down"
    THEN Ret([m EXCEPT !.mentionIndex =
                 IF @ < Len(m.mentionCandidates) - 1 THEN @ + 1 ELSE 0], NoCmd)
    ELSE IF m.mentionActive /\ key = "esc"
    THEN Ret([m EXCEPT !.mentionActive = FALSE, !.mentionCandidates = <<>>], NoCmd)
    ELSE IF key = "tab"
    THEN IF ~m.membersLoaded THEN Ret(m, <<Task("members", 0, <<>>)>>)
         ELSE LET m1 == updateMentionCompletion(m)
              IN Ret(IF m1.mentionActive THEN completeMention(m1) ELSE m1, NoCmd)
    ELSE IF key = "esc"
    THEN Ret([m EXCEPT !.inputMode = "InputModeNone",
                       !.editTS = 0,
                       !.mentionActive = FALSE,
                       !.mentionCandidates = <<>>,
                       !.inputText = <<>>], NoCmd)
    ELSE IF key = "enter"
    THEN LET text == TrimSpace(m.inputText)
             m1 == [m EXCEPT !.inputMode = "InputModeNone",
                             !.editTS = 0,
                             !.inputText = <<>>]
         IN IF text = <<>> THEN Ret(m, NoCmd)
            ELSE IF m.inputMode = "InputModeNewMessage"
            THEN Ret(m1, <<Task("send", 0, text)>>)
            ELSE IF m.inputMode = "InputModeEdit"
            THEN Ret(m1, <<Task("edit", m.editTS, text)>>)
            ELSE Ret(m1, <<Task("reply", m.threadTS, text)>>)
    ELSE LET m1 == [m EXCEPT !.inputText =
                        IF key \in NamedKeys THEN @ ELSE Append(@, key)]
         IN IF m1.membersLoaded THEN Ret(updateMentionCompletion(m1), NoCmd)
            ELSE IF Contains(m1.inputText, <<"@">>)
            THEN Ret(m1, <<Task("members", 0, <<>>)>>)
            ELSE Ret(m1, NoCmd)

\* LiveModel.handlePeekModeKey, with no thread open in the peeked channel
handlePeekModeKey(m, key) ==
    IF key \in {"q", "esc"} THEN Ret(exitPeekMode(m), NoCmd)
    ELSE IF key = "up"
    THEN IF m.peekSelectedIndex > 0
         THEN LET sel == m.peekSelectedIndex - 1
              IN Ret([m EXCEPT !.peekSelectedIndex = sel,
                               !.peekScrollOffset =
                                   ensureVisible(m.peekMessages, sel, @)], NoCmd)
         ELSE Ret(m, NoCmd)
    ELSE IF key = "down"
    THEN IF m.peekSelectedIndex < Len(m.peekMessages) - 1
         THEN LET sel == m.peekSelectedIndex + 1
              IN Ret([m EXCEPT !.peekSelectedIndex = sel,
                               !.peekScrollOffset =
                                   ensureVisible(m.peekMessages, sel, @)], NoCmd)
         ELSE Ret(m, NoCmd)
    ELSE Ret(m, NoCmd)

\* LiveModel.handleNotifyPanelKey
handleNotifyPanelKey(m, key) ==
    IF key \in {"q", "esc", "n"} THEN Ret([m EXCEPT !.showNotifyPanel = FALSE], NoCmd)
    ELSE IF key = "up"
    THEN Ret([m EXCEPT !.notifyPanelIndex = IF @ > 0 THEN @ - 1 ELSE @], NoCmd)
    ELSE IF key = "down"
    THEN Ret([m EXCEPT !.notifyPanelIndex =
                 IF @ < Len(m.notifications) - 1 THEN @ + 1 ELSE @], NoCmd)
    ELSE IF key = "enter"
    THEN IF m.notifyPanelIndex < Len(m.notifications)
         THEN enterPeekMode(m, m.notifications[m.notifyPanelIndex + 1].ChannelID)
         ELSE Ret(m, NoCmd)
    ELSE IF key = "1"
    THEN IF 0 < Len(m.notifications)
         THEN enterPeekMode(m, m.notifications[1].ChannelID)
         ELSE Ret(m, NoCmd)
    ELSE Ret(m, NoCmd)

\* The delete-confirmation branch of LiveModel.Update on a KeyMsg
handleDeleteConfirmKey(m, key) ==
    IF key \in {"y", "Y"}
    THEN LET m1 == [m EXCEPT !.deleteConfirm = FALSE]
         IN IF Len(m.messages) > 0 /\ m.selectedIndex < Len(m.messages)
            THEN Ret(m1, <<Task("delete", m.messages[m.selectedIndex + 1].Timestamp,
                                <<>>)>>)
            ELSE Ret(m1, NoCmd)
    ELSE IF key \in {"n", "N", "esc"} THEN Ret([m EXCEPT !.deleteConfirm = FALSE], NoCmd)
    ELSE Ret(m, NoCmd)

\* The main-list branch of LiveModel.Update on a KeyMsg, but for the keys that open
\* a thread (enter, r)
handleMainKey(m, key) ==
    IF key = "up"
    THEN IF m.selectedIndex > 0
         THEN LET sel == m.selectedIndex - 1
              IN Ret([m EXCEPT !.selectedIndex = sel,
                               !.scrollOffset = ensureVisible(m.messages, sel, @)],
                     NoCmd)
         ELSE IF m.selectedIndex = 0 /\ m.hasMoreMessages /\ ~m.loadingOlder
         THEN Ret([m EXCEPT !.loadingOlder = TRUE],
                  IF Len(m.messages) = 0 THEN NoCmd
                  ELSE <<Task("older", m.messages[1].Timestamp, <<>>)>>)
         ELSE Ret(m, NoCmd)
    ELSE IF key = "down"
    THEN IF m.selectedIndex < Len(m.messages) - 1
         THEN LET sel == m.selectedIndex + 1
              IN Ret([m EXCEPT !.selectedIndex = sel,
                               !.scrollOffset = ensureVisible(m.messages, sel, @)],
                     NoCmd)
         ELSE Ret(m, NoCmd)
    ELSE IF key = "i"
    THEN Ret([m EXCEPT !.inputMode = "InputModeNewMessage"], NoCmd)
    ELSE IF key = "R"
    THEN Ret([m EXCEPT !.loading = TRUE], <<Task("load", 0, <<>>)>>)
    ELSE IF key = "d"
    THEN IF /\ Len(m.messages) > 0
            /\ m.selectedIndex < Len(m.messages)
            /\ m.messages[m.selectedIndex + 1].User = CurrentUserID
         THEN Ret([m EXCEPT !.deleteConfirm = TRUE], NoCmd)
         ELSE Ret(m, NoCmd)
    ELSE IF key = "e"
    THEN IF /\ Len(m.messages) > 0
            /\ m.selectedIndex < Len(m.messages)
            /\ m.messages[m.selectedIndex + 1].User = CurrentUserID
         THEN LET selectedMsg == m.messages[m.selectedIndex + 1]
              IN Ret([m EXCEPT !.editTS = selectedMsg.Timestamp,
                               !.inputMode = "InputModeEdit",
                               !.inputText = selectedMsg.Text], NoCmd)
         ELSE Ret(m, NoCmd)
    ELSE IF key = "n"
    THEN IF Len(m.notifications) > 0
         THEN Ret([m EXCEPT !.showNotifyPanel = TRUE, !.notifyPanelIndex = 0], NoCmd)
         ELSE Ret(m, NoCmd)
    ELSE Ret(m, NoCmd)

\* LiveModel.Update on a KeyMsg, with no thread open
UpdateKey(m, key) ==
    IF m.peekMode THEN handlePeekModeKey(m, key)
    ELSE IF m.showNotifyPanel THEN handleNotifyPanelKey(m, key)
    ELSE IF m.inputMode # "InputModeNone" THEN handleInputKey(m, key)
    ELSE IF m.deleteConfirm THEN handleDeleteConfirmKey(m, key)
    ELSE handleMainKey(m, key)

\* LiveModel.Update on a LiveThreadLoadedMsg
LiveThreadLoaded(m, msg) ==
    IF msg.Err THEN [m EXCEPT !.threadVisible = FALSE]
    ELSE [m EXCEPT !.threadMessages = msg.Messages, !.threadVisible = TRUE]

\* The thread-view branch of LiveModel.Update on a KeyMsg
handleThreadKey(m, key) ==
    IF key \in {"q", "esc"}
    THEN Ret([m EXCEPT !.threadVisible = FALSE,
                       !.threadMessages = <<>>,
                       !.threadTS = 0], NoCmd)
    ELSE IF key = "r" /\ m.threadTS # 0
    THEN Ret([m EXCEPT !.inputMode = "InputModeReply"], NoCmd)
    ELSE Ret(m, NoCmd)

\* The keys of the main list that open a thread (enter) or a reply (r); the messages
\* of the model are top-level messages, their ThreadTS empty
handleOpenKey(m, key) ==
    IF Len(m.messages) > 0 /\ m.selectedIndex < Len(m.messages)
    THEN LET threadTS == m.messages[m.selectedIndex + 1].Timestamp
         IN IF key = "enter"
            THEN Ret([m EXCEPT !.threadTS = threadTS],
                     <<Task("thread", threadTS, <<>>)>>)
            ELSE Ret([m EXCEPT !.threadTS = threadTS,
                               !.inputMode = "InputModeReply"], NoCmd)
    ELSE Ret(m, NoCmd)

\* LiveModel.Update on a KeyMsg
UpdateKeyMsg(m, key) ==
    IF m.peekMode THEN handlePeekModeKey(m, key)
    ELSE IF m.showNotifyPanel THEN handleNotifyPanelKey(m, key)
    ELSE IF m.inputMode # "InputModeNone" THEN handleInputKey(m, key)
    ELSE IF m.deleteConfirm THEN handleDeleteConfirmKey(m, key)
    ELSE IF m.threadVisible THEN handleThreadKey(m, key)
    ELSE IF key \in {"enter", "r"} THEN handleOpenKey(m, key)
    ELSE handleMainKey(m, key)

\* Somebody else posts a message to the live channel: Slack stores it and pushes it
\* down the realtime stream.
Post(last) ==
    /\ server.next <= last
    /\ LET msg == SlackMessage(server.next, "U2", <<"a">>)
       IN /\ server' = [server EXCEPT !.history = Append(@, msg), !.next = @ + 1]
          /\ stream' = Append(stream, IncomingMessage(LiveChannel, msg))
    /\ op' = [name |-> "Post"]
    /\ UNCHANGED <<live, tasks, peeked, prompt, cacheState, notifyVars>>

\* Somebody posts a message to the other channel.
PostOther ==
    /\ server.other < MaxOther
    /\ LET msg == SlackMessage(server.other + 1, "U2", <<"a">>)
       IN /\ server' = [server EXCEPT !.other = @ + 1]
          /\ stream' = Append(stream, IncomingMessage(OtherChannel, msg))
    /\ op' = [name |-> "PostOther"]
    /\ UNCHANGED <<live, tasks, peeked, prompt, cacheState, notifyVars>>

\* The history of the other channel.
OtherHistory == [i \in 1..server.other |-> SlackMessage(i, "U2", <<"a">>)]

\* tasks without its i-th element
Without(queue, i) == SubSeq(queue, 1, i - 1) \o SubSeq(queue, i + 1, Len(queue))

\* Every fetch of an older page in flight has now seen the loop handle another event.
Overtaken(queue) ==
    [i \in 1..Len(queue) |->
        IF queue[i].kind = "older" THEN [queue[i] EXCEPT !.overtaken = TRUE]
        ELSE queue[i]]

\* The peek in progress after the loop has handled an event (key: a key press).
Noted(m, key) ==
    IF ~peeked.active THEN peeked
    ELSE IF ~m.peekMode THEN NoEntry
    ELSE IF key THEN [peeked EXCEPT !.keys = TRUE]
    ELSE [peeked EXCEPT !.events = TRUE]

\* LiveModel.resolveUserNames, run by the goroutine of a load with the messages it
\* fetched: the map of the model after it, users.info answering with names
resolveUserNames(userCache, messages, names) ==
    LET asked == {messages[j].User : j \in 1..Len(messages)} \ DOMAIN userCache
    IN [id \in DOMAIN userCache \cup (asked \cap DOMAIN names) |->
           IF id \in DOMAIN userCache THEN userCache[id] ELSE names[id]]

\* The goroutine of a command makes its call to Slack: the closures of loadMessages,
\* loadOlderMessages, loadPeekMessages, loadChannelMembers, deleteMessage,
\* editMessage, sendMessage, loadThread and sendReply.  The network is up: the call
\* fails (err) only when the message is not there any more, when there is no
\* channel to read, or when the channel is full.  The closure of a load then calls
\* resolveUserNames, which writes the names users.info gives (names) into
\* m.userCache with no lock, the map the event loop reads and writes: either the
\* entries are written, or the runtime finds the map in use on both sides (clash)
\* and stops the process.
TaskCall(names) ==
    \E i \in 1..Len(tasks) :
        LET task == tasks[i]
            there == IndexOfTs(server.history, task.ts) >= 0
            err == CASE task.kind \in {"delete", "edit"} -> ~there
                     [] task.kind = "peek" -> live.peekChannelID # OtherChannel
                     [] task.kind = "send" -> server.next > MaxStreamTs
                     [] task.kind \in {"thread", "reply"} -> ~there
                     [] OTHER -> FALSE
            Finish(result) ==
                tasks' = [tasks EXCEPT ![i] =
                             [result EXCEPT !.done = TRUE, !.Err = err]]
            page(history, latest) ==
                IF err THEN [Messages |-> <<>>, HasMore |-> FALSE]
                ELSE GetMessagesWithPagination(history, PageLimit, latest)
            Loaded(r) == [task EXCEPT !.Messages = r.Messages, !.HasMore = r.HasMore]
            Root(msg) == msg.Timestamp = task.ts
        IN /\ ~task.done
           /\ CASE task.kind = "load" ->
                     /\ Finish(Loaded(page(server.history, 0)))
                     /\ UNCHANGED <<server, stream>>
                [] task.kind = "older" ->
                     /\ Finish(Loaded(page(server.history, task.ts)))
                     /\ UNCHANGED <<server, stream>>
                [] task.kind = "peek" ->
                     /\ Finish(Loaded(page(OtherHistory, 0)))
                     /\ UNCHANGED <<server, stream>>
                [] task.kind = "members" ->
                     /\ Finish(task)
                     /\ UNCHANGED <<server, stream>>
                [] task.kind = "thread" ->
                     /\ Finish([task EXCEPT !.Messages = SelectSeq(server.history, Root)])
                     /\ UNCHANGED <<server, stream>>
                [] task.kind = "reply" ->
                     /\ Finish(task)
                     /\ UNCHANGED <<server, stream>>
                [] task.kind = "delete" ->
                     /\ Finish(task)
                     /\ server' = IF err THEN server
                                  ELSE [server EXCEPT !.history =
                                           Without(@, IndexOfTs(@, task.ts) + 1)]
                     /\ UNCHANGED stream
                [] task.kind = "edit" ->
                     /\ Finish(task)
                     /\ server' = IF err THEN server
                                  ELSE [server EXCEPT
                                           !.history[IndexOfTs(server.history, task.ts) + 1]
                                               .Text = task.text]
                     /\ UNCHANGED stream
                [] task.kind = "send" ->
                     /\ Finish(task)
                     /\ LET msg == SlackMessage(server.next, CurrentUserID, task.text)
                        IN IF err THEN UNCHANGED <<server, stream>>
                           ELSE /\ server' = [server EXCEPT
                                                 !.history = Append(@, msg),
                                                 !.next = @ + 1]
                                /\ stream' = Append(stream,
                                                    IncomingMessage(LiveChannel, msg))
           /\ op' = [name |-> "TaskRun", kind |-> task.kind]
           /\ \E clash \in BOOLEAN :
                 LET cache == resolveUserNames(live.userCache, tasks'[i].Messages,
                                               names)
                 IN /\ clash => cache # live.userCache
                    /\ live' = IF clash THEN live
                               ELSE [live EXCEPT !.userCache = cache]
                    /\ phase' = IF clash THEN "fatal" ELSE phase
           /\ UNCHANGED <<peeked, prompt, cacheState, managerVars, calls, executor,
                          browseMode, liveMode, realtime, threadVars>>

\* The goroutine of a command while users.info gives no name: resolveUserNames
\* writes nothing
TaskRun == TaskCall(NoNames)

\* The result message of a finished task, as Update names it.
ResultName(kind) ==
    CASE kind = "load" -> "LiveMessagesLoadedMsg"
      [] kind = "older" -> "LiveOlderMessagesLoadedMsg"
      [] kind = "peek" -> "PeekMessagesLoadedMsg"
      [] kind = "members" -> "LiveMembersLoadedMsg"
      [] kind = "delete" -> "LiveMessageDeletedMsg"
      [] kind = "edit" -> "LiveMessageEditedMsg"
      [] kind = "send" -> "LiveMessageSentMsg"
      [] kind = "thread" -> "LiveThreadLoadedMsg"
      [] kind = "reply" -> "LiveReplySentMsg"

\* LiveModel.Update on the result message of a task; loadingErr, which only the
\* renderer reads, is left out
UpdateResult(m, msg) ==
    CASE msg.kind = "load" -> LiveMessagesLoaded(m, msg)
      [] msg.kind = "older" -> LiveOlderMessagesLoaded(m, msg)
      [] msg.kind = "peek" -> PeekMessagesLoaded(m, msg)
      [] msg.kind = "members" ->
            LiveMembersLoaded(m, [Err |-> msg.Err, Members |-> ChannelMembers,
                                  UserNames |-> UserNames])
      [] msg.kind = "delete" -> LiveMessageDeleted(m, msg)
      [] msg.kind = "edit" -> LiveMessageEdited(m, msg)
      [] msg.kind = "send" -> m
      [] msg.kind = "thread" -> LiveThreadLoaded(m, msg)
      [] msg.kind = "reply" -> m

\* The command LiveModel.Update returns with a result message: a reply that was
\* sent has the thread of m.threadTS loaded again
ResultCmd(m, msg) ==
    IF msg.kind = "reply" /\ ~msg.Err THEN <<Task("thread", m.threadTS, <<>>)>>
    ELSE NoCmd

\* Model.Update hands the result message of a finished task to the live view, in
\* whatever order the goroutines finished.
TaskDeliver ==
    \E i \in 1..Len(tasks) :
        /\ tasks[i].done
        /\ live' = UpdateResult(live, tasks[i])
        /\ tasks' = Overtaken(Without(tasks, i)) \o ResultCmd(live, tasks[i])
        /\ peeked' = Noted(live', FALSE)
        /\ op' = [name |-> ResultName(tasks[i].kind),
                  applied |-> IF tasks[i].Err THEN 0 ELSE Len(tasks[i].Messages),
                  overtaken |-> tasks[i].overtaken]
        /\ UNCHANGED <<server, stream, prompt, cacheState, notifyVars>>

\* Model.Update on an IncomingMessageMsg while the live view is open: the view's
\* part of the handler (the Manager's part is IncomingMessageMsg above).  A message
\* of another channel goes to the peek view if that channel is peeked at, and
\* raises a notification of the view otherwise.
LiveIncomingMessageMsg ==
    /\ stream # <<>>
    /\ LET ev == Head(stream)
           room == live.shared /\ Len(live.messages) < Len(live.originalMessages)
       IN \E grow \in BOOLEAN :
             /\ room => ~grow
             /\ ~live.shared => grow
             /\ LET m1 == AddIncomingMessage(live, ev.ChannelID, ev.msg, grow)
                    m2 == AddPeekIncomingMessage(m1, ev.ChannelID, ev.msg)
                IN live' = IF /\ ev.ChannelID # m2.channelID
                              /\ ~(m2.peekMode /\ ev.ChannelID = m2.peekChannelID)
                           THEN AddNotification(m2, ev.ChannelID)
                           ELSE m2
             /\ op' = [name |-> "IncomingMessageMsg"]
    /\ stream' = Tail(stream)
    /\ tasks' = Overtaken(tasks)
    /\ peeked' = Noted(live', FALSE)
    /\ UNCHANGED <<server, prompt, cacheState, notifyVars>>

\* The view as enterPeekMode finds it.
Entered(m) ==
    [active |-> TRUE, channelID |-> m.channelID, messages |-> m.messages,
     scrollOffset |-> m.scrollOffset, selectedIndex |-> m.selectedIndex,
     keys |-> FALSE, events |-> FALSE]

\* The keys that open a thread, which the model leaves closed.
OpensThread(m, key) ==
    \/ m.peekMode /\ key = "enter"
    \/ /\ ~m.peekMode /\ ~m.showNotifyPanel
       /\ m.inputMode = "InputModeNone" /\ ~m.deleteConfirm
       /\ key \in {"enter", "r"}

\* The compose buffer has the keyboard.
Composing(m) == ~m.peekMode /\ ~m.showNotifyPanel /\ m.inputMode # "InputModeNone"

\* Model.Update on a KeyMsg while the live view is open and ShouldExit says no:
\* LiveModel.Update handles the key and its commands are scheduled.  The user
\* presses the keys of keys, and types only the characters of runes into the compose
\* buffer, up to limit of them, with at most flight commands under way.
KeyMsg(keys, runes, limit, flight) ==
    \E key \in keys :
        LET ret == UpdateKey(live, key)
        IN /\ ~OpensThread(live, key)
           /\ Composing(live) => key \in NamedKeys \cup runes
           /\ ~(key = "q" /\ ~live.peekMode /\ ~live.showNotifyPanel
                /\ live.inputMode = "InputModeNone" /\ ~live.deleteConfirm)
           /\ Len(live.inputText) < limit \/ key \in NamedKeys
              \/ live.inputMode = "InputModeNone"
           /\ Len(tasks) + Len(ret.cmd) <= flight
           /\ live' = ret.m
           /\ tasks' = Overtaken(tasks) \o ret.cmd
           /\ peeked' = IF ~live.peekMode /\ ret.m.peekMode THEN Entered(live)
                       ELSE Noted(ret.m, TRUE)
           /\ op' = [name |-> "KeyMsg", key |-> IF Composing(live) THEN key ELSE "",
                     exit |-> live.peekMode /\ ~ret.m.peekMode]
           /\ UNCHANGED <<server, stream, prompt, cacheState, notifyVars>>

\* The empty map make(map[string]int)
EmptyCounts == [k \in {} |-> 0]

\* The terminal title before the program has written one.
TitleUnset == -1

\* NewManager(cfg)
NewManager(configs) ==
    /\ cfg \in configs
    /\ unreadCount = EmptyCounts
    /\ title = TitleUnset
    /\ visual = <<>>
    /\ calls = <<>>
    /\ threads = [t \in Threads |-> Idle]
    /\ mu = 0

\* NewModel; app.Run sets the realtime client when an app token is configured
NewModel(tokens) ==
    /\ executor = NewExecutor
    /\ browseMode = FALSE
    /\ liveMode = FALSE
    /\ phase = "new"
    /\ realtime \in tokens

(***************************************************************************)
(* The shell's parser, and the lines typed at the prompt                   *)
(***************************************************************************)

\* The rune 0 that quoteChar holds outside a quotation.
NoQuote == ""

IsQuote(r) == r = "\"" \/ r = "'"

RECURSIVE tokenizeFrom(_, _, _, _, _, _)
\* The loop of tokenize from the i-th character on
tokenizeFrom(input, i, tokens, current, inQuote, quoteChar) ==
    IF i > Len(input)
    THEN IF Len(current) > 0 THEN Append(tokens, current) ELSE tokens
    ELSE LET r == input[i]
         IN CASE IsQuote(r) /\ ~inQuote ->
                   tokenizeFrom(input, i + 1, tokens, current, TRUE, r)
              [] r = quoteChar /\ inQuote ->
                   tokenizeFrom(input, i + 1, tokens, current, FALSE, NoQuote)
              [] r = " " /\ ~inQuote ->
                   IF Len(current) > 0
                   THEN tokenizeFrom(input, i + 1, Append(tokens, current), <<>>,
                                     inQuote, quoteChar)
                   ELSE tokenizeFrom(input, i + 1, tokens, current, inQuote, quoteChar)
              [] OTHER ->
                   tokenizeFrom(input, i + 1, tokens, Append(current, r),
                                inQuote, quoteChar)

\* tokenize
tokenize(input) == tokenizeFrom(input, 1, <<>>, <<>>, FALSE, NoQuote)

RECURSIVE splitByPipeFrom(_, _, _, _, _, _)
\* The loop of splitByPipe from the i-th character on
splitByPipeFrom(input, i, parts, current, inQuote, quoteChar) ==
    IF i > Len(input)
    THEN IF Len(current) > 0 THEN Append(parts, current) ELSE parts
    ELSE LET r == input[i]
         IN CASE IsQuote(r) /\ ~inQuote ->
                   splitByPipeFrom(input, i + 1, parts, Append(current, r), TRUE, r)
              [] r = quoteChar /\ inQuote ->
                   splitByPipeFrom(input, i + 1, parts, Append(current, r),
                                   FALSE, NoQuote)
              [] r = "|" /\ ~inQuote ->
                   splitByPipeFrom(input, i + 1, Append(parts, current), <<>>,
                                   inQuote, quoteChar)
              [] OTHER ->
                   splitByPipeFrom(input, i + 1, parts, Append(current, r),
                                   inQuote, quoteChar)

\* splitByPipe
splitByPipe(input) == splitByPipeFrom(input, 1, <<>>, <<>>, FALSE, NoQuote)

RECURSIVE IsPipelineFrom(_, _, _, _)
\* The loop of IsPipeline from the i-th character on
IsPipelineFrom(input, i, inQuote, quoteChar) ==
    IF i > Len(input) THEN FALSE
    ELSE LET r == input[i]
         IN CASE IsQuote(r) /\ ~inQuote -> IsPipelineFrom(input, i + 1, TRUE, r)
              [] r = quoteChar /\ inQuote ->
                   IsPipelineFrom(input, i + 1, FALSE, NoQuote)
              [] r = "|" /\ ~inQuote -> TRUE
              [] OTHER -> IsPipelineFrom(input, i + 1, inQuote, quoteChar)

\* IsPipeline with the quotes ignored
IsPipeline_AnyBar(input) == \E i \in 1..Len(input) : input[i] = "|"

\* IsPipeline
IsPipeline(input) == IsPipelineFrom(input, 1, FALSE, NoQuote)

\* parseCommandType
parseCommandType(s) ==
    LET verb == ToLower(s)
    IN CASE verb = <<"l", "s">> -> "CmdLs"
         [] verb = <<"c", "d">> -> "CmdCd"
         [] verb = <<"c", "a", "t">> -> "CmdCat"
         [] verb = <<"t", "a", "i", "l">> -> "CmdTail"
         [] verb = <<"s", "e", "n", "d">> -> "CmdSend"
         [] verb = <<"p", "w", "d">> -> "CmdPwd"
         [] verb = <<"h", "e", "l", "p">> -> "CmdHelp"
         [] verb \in {<<"e", "x", "i", "t">>, <<"q", "u", "i", "t">>, <<"q">>} -> "CmdExit"
         [] verb = <<"s", "o", "u", "r", "c", "e">> -> "CmdSource"
         [] verb = <<"g", "r", "e", "p">> -> "CmdGrep"
         [] verb = <<"b", "r", "o", "w", "s", "e">> -> "CmdBrowse"
         [] verb = <<"m", "k", "d", "i", "r">> -> "CmdMkdir"
         [] verb = <<"v", "e", "r", "s", "i", "o", "n">> -> "CmdVersion"
         [] verb = <<"l", "i", "v", "e">> -> "CmdLive"
         [] OTHER -> "CmdUnknown"

\* shell.Command with its Flags (a function from the flag's name to its value) and
\* RawArgs
Command(type, args, flags, rawArgs) ==
    [Type |-> type, Args |-> args, Flags |-> flags, RawArgs |-> rawArgs]

NoFlags == [k \in {} |-> <<>>]

\* strings.TrimLeft(part, "-")
RECURSIVE TrimLeftDash(_)
TrimLeftDash(part) ==
    IF Len(part) > 0 /\ Head(part) = "-" THEN TrimLeftDash(Tail(part)) ELSE part

\* strings.Index: the 0-based place of the first occurrence, -1 when there is none
Index(s, substr) ==
    LET at == {i \in 0..(Len(s) - Len(substr)) :
                  SubSeq(s, i + 1, i + Len(substr)) = substr}
    IN IF at = {} THEN -1 ELSE CHOOSE i \in at : \A j \in at : i <= j

RECURSIVE parseParts(_, _, _)
\* The loop of ParseCommand over parts[i] and what follows (i counts from 0)
parseParts(parts, i, cmd) ==
    IF i >= Len(parts) THEN cmd
    ELSE LET part == parts[i + 1]
         IN IF HasPrefix(part, <<"-">>)
            THEN LET flagName == TrimLeftDash(part)
                 IN IF i + 1 < Len(parts) /\ ~HasPrefix(parts[i + 2], <<"-">>)
                    THEN parseParts(parts, i + 2,
                            [cmd EXCEPT !.Flags = (flagName :> parts[i + 2]) @@ @])
                    ELSE parseParts(parts, i + 1,
                            [cmd EXCEPT !.Flags = (flagName :> <<"t", "r", "u", "e">>) @@ @])
            ELSE parseParts(parts, i + 1, [cmd EXCEPT !.Args = Append(@, part)])

\* The RawArgs of a send: what follows the first occurrence of the verb
RawRemainder(input, parts) ==
    LET idx == Index(input, parts[1])
    IN IF idx >= 0
       THEN TrimSpace(SubSeq(input, idx + Len(parts[1]) + 1, Len(input)))
       ELSE <<>>

\* ParseCommand with RawArgs taken from the tokens, the quotes gone
ParseCommand_FromTokens(input0) ==
    LET input == TrimSpace(input0)
        parts == tokenize(input)
    IN IF input = <<>> THEN Command("CmdUnknown", <<>>, NoFlags, <<>>)
       ELSE IF input = <<".", ".">> THEN Command("CmdBack", <<>>, NoFlags, <<>>)
       ELSE IF Len(parts) = 0 THEN Command("CmdUnknown", <<>>, NoFlags, <<>>)
       ELSE LET cmd == parseParts(parts, 1,
                          Command(parseCommandType(parts[1]), <<>>, NoFlags, <<>>))
            IN IF cmd.Type = "CmdSend" /\ Len(parts) > 1
               THEN [cmd EXCEPT !.RawArgs = JoinSpace(Tail(parts))]
               ELSE cmd

\* ParseCommand
ParseCommand(input0) ==
    LET input == TrimSpace(input0)
        parts == tokenize(input)
    IN IF input = <<>> THEN Command("CmdUnknown", <<>>, NoFlags, <<>>)
       ELSE IF input = <<".", ".">> THEN Command("CmdBack", <<>>, NoFlags, <<>>)
       ELSE IF Len(parts) = 0 THEN Command("CmdUnknown", <<>>, NoFlags, <<>>)
       ELSE LET cmd == parseParts(parts, 1,
                          Command(parseCommandType(parts[1]), <<>>, NoFlags, <<>>))
            IN IF cmd.Type = "CmdSend" /\ Len(parts) > 1
               THEN [cmd EXCEPT !.RawArgs = RawRemainder(input, parts)]
               ELSE cmd

\* ParsePipeline: the Commands of the Pipeline
ParsePipeline(input0) ==
    LET input == TrimSpace(input0)
        parts == splitByPipe(input)
    IN IF input = <<>> THEN << Command("CmdUnknown", <<>>, NoFlags, <<>>) >>
       ELSE [k \in 1..Len(parts) |-> ParseCommand(TrimSpace(parts[k]))]

\* The longest line drawn from PipeAlphabet.
MaxLine == 5

\* The characters of the lines that try the quoting: a letter, the bar, the two
\* quote characters, the space.
PipeAlphabet == {"a", "|", "\"", "'", " "}

\* Every line of at most MaxLine characters of PipeAlphabet
PipeLines == UNION {[1..n -> PipeAlphabet] : n \in 0..MaxLine}

\* A send with its message between two quote characters q: the verb, the space after
\* it, the body, and what is typed after the closing quote.
SendBodies ==
    { <<"h", "e", "l", "l", "o", " ", "w", "o", "r", "l", "d">>, <<"a", " ", " ", "b">>, <<" ", "a", " ">>, <<"a", "|", "b">>, <<"i", "t", "'", "s">>, <<>> }

SendForms ==
    { f \in [verb : {<<"s", "e", "n", "d">>, <<"S", "E", "N", "D">>}, lead : {<<" ">>, <<" ", " ">>}, q : {"\"", "'"},
             body : SendBodies, trail : {<<>>, <<" ">>}] :
        \A i \in 1..Len(f.body) : f.body[i] # f.q }

SendLine(f) == f.verb \o f.lead \o <<f.q>> \o f.body \o <<f.q>> \o f.trail

\* A pipeline of a producer and one grep
Producers ==
    { <<"l", "s">>, <<"c", "d", " ", "#", "d", "e", "v">>, <<"c", "d", " ", "#", "r", "a", "n", "d", "o", "m">>, <<"c", "d", " ", "#", "n", "o", "p", "e">>, <<"h", "e", "l", "p">>, <<"s", "e", "n", "d", " ", "h", "i">> }

Patterns == { <<"d", "e", "v">>, <<"D", "E", "V">>, <<"a", "n">>, <<"E", "N", "T">>, <<"#">>, <<"z", "z", "z">> }

GrepForms == [producer : Producers, pattern : Patterns]

GrepLine(f) == f.producer \o <<" ", "|", " ", "g", "r", "e", "p", " ">> \o f.pattern

\* The same pipeline with the flag -i before the pattern
GrepFlagLine(f) ==
    f.producer \o <<" ", "|", " ", "g", "r", "e", "p", " ", "-", "i", " ">> \o f.pattern

\* A pipeline with a stage after the first that is no grep, directly after the
\* producer or after a grep
Stages == { <<"l", "s">>, <<"c", "d", " ", "#", "d", "e", "v">>, <<"s", "e", "n", "d", " ", "x">>, <<"e", "x", "i", "t">>, <<"b", "o", "g", "u", "s">> }

StageForms == [producer : Producers \cup {<<"e", "x", "i", "t">>}, stage : Stages, grep : BOOLEAN]

StageLine(f) ==
    f.producer \o (IF f.grep THEN <<" ", "|", " ", "g", "r", "e", "p", " ", "d", "e", "v">> ELSE <<>>) \o <<" ", "|", " ">> \o f.stage

\* Other lines: plain commands, a send without quotes, a verb typed with a quote
\* inside, a flag before the pattern, two greps.
OtherLines ==
    { <<"l", "s">>,
      <<"c", "d", " ", "#", "d", "e", "v">>,
      <<"c", "d", " ", "#", "r", "a", "n", "d", "o", "m">>,
      <<".", ".">>,
      <<"s", "e", "n", "d", " ", "h", "e", "l", "l", "o", " ", " ", "w", "o", "r", "l", "d">>,
      <<"s", "e", "\"", "n", "d", "\"", " ", "a", " ", " ", "b">>,
      <<"s", "e", "n", "d", " ", "\"", "a", "\"", " ", "b">>,
      <<"l", "s", " ", "|", " ", "g", "r", "e", "p", " ", "-", "i", " ", "d", "e", "v">>,
      <<"l", "s", "|", "g", "r", "e", "p", " ", "d", "e", "v">>,
      <<"l", "s", " ", "|", " ", "g", "r", "e", "p", " ", "d", "e", "v", " ", "|", " ", "g", "r", "e", "p", " ", "B", "A", "C", "K">>,
      <<"l", "s", " ", "|", " ", "g", "r", "e", "p", " ", "'", "d", "e", "v", "-", "f", "'">> }

\* The lines typed at the prompt
PromptLines ==
    PipeLines \cup {SendLine(f) : f \in SendForms}
              \cup {GrepLine(f) : f \in GrepForms}
              \cup {GrepFlagLine(f) : f \in GrepForms}
              \cup {StageLine(f) : f \in StageForms} \cup OtherLines

\* What Model.executeCommand appends to the history after the echo of the line: the
\* refusal of browse or live, the error, the notice of the switch, or the output
Appended(e, hasRealtime, input, result) ==
    LET parsedCmd == IF input.pipe THEN ZeroCommand ELSE input.cmds[1]
    IN IF ~input.pipe /\ parsedCmd.Type \in {"CmdBrowse", "CmdLive"}
       THEN IF e.currentChannel = <<>> THEN << <<"N", "o", "t", " ", "i", "n", " ", "a", " ", "c", "h", "a", "n", "n", "e", "l", ".">> >>
            ELSE IF parsedCmd.Type = "CmdLive" /\ ~hasRealtime
            THEN << <<"R", "e", "a", "l", "-", "t", "i", "m", "e", " ", "c", "o", "n", "n", "e", "c", "t", "i", "o", "n", " ", "n", "o", "t", " ", "a", "v", "a", "i", "l", "a", "b", "l", "e", ".">> >>
            ELSE <<>>
       ELSE IF result.Exit THEN <<>>
       ELSE IF result.Error # "" THEN << result.Error >>
       ELSE IF result.SwitchWorkspace # <<>> THEN << <<"S", "w", "i", "t", "c", "h", "e", "d", " ", "t", "o", " ", "w", "o", "r", "k", "s", "p", "a", "c", "e">> >>
       ELSE result.Output

\* Model.executeCommand once the Executor has returned result for the parsed line.
\* In op, before is the Executor as the line found it, posted the text handed to
\* client.PostMessage if a send is executed, shown what is appended to the history.
enteredLine(input, parsed, apiOk, result) ==
    /\ op' = [name |-> "executeCommand",
              entered |-> CdEntered(executor, parsed, apiOk),
              input |-> input, pipe |-> parsed.pipe, cmds |-> parsed.cmds,
              before |-> executor, apiOk |-> apiOk,
              result |-> result,
              posted |-> IF parsed.cmds[1].Type = "CmdSend"
                         THEN executeSend(executor, parsed.cmds[1], apiOk).call
                         ELSE <<>>,
              shown |-> Appended(executor, realtime, parsed, result)]
    /\ applyResult(parsed, result)

\* The line as Model.executeCommand parses it
ParsedLine(input) ==
    IF IsPipeline(input) THEN Line(TRUE, ParsePipeline(input))
    ELSE Line(FALSE, <<ParseCommand(input)>>)

\* Model.executeCommand on the trimmed line
executeInput(input, parsed, apis) ==
    IF input = <<>>
    THEN /\ op' = [name |-> "executeCommand", entered |-> NoChannel,
                   input |-> input, pipe |-> FALSE, cmds |-> <<>>,
                   before |-> executor, apiOk |-> ApiUp,
                   result |-> Result(<<>>, "", FALSE, executor),
                   posted |-> <<>>, shown |-> <<>>]
         /\ calls' = <<>>
         /\ UNCHANGED <<unreadCount, title, shellVars>>
    ELSE \E apiOk \in apis :
            enteredLine(input, parsed, apiOk,
                        IF parsed.pipe
                        THEN ExecutePipeline(executor, parsed.cmds, apiOk)
                        ELSE IF parsed.cmds[1].Type \in {"CmdBrowse", "CmdLive"}
                        THEN Result(<<>>, "", FALSE, executor)
                        ELSE Execute(executor, parsed.cmds[1], apiOk))

\* The trimmed line, parsed
executeTrimmed(input, apis) == executeInput(input, ParsedLine(input), apis)

\* Model.executeCommand on the typed line: the line is trimmed, parsed and executed,
\* and the text input is emptied.
executeCommandTyped(typed, apis) ==
    /\ phase = "run"
    /\ ~browseMode /\ ~liveMode
    /\ executeTrimmed(TrimSpace(typed), apis)
    /\ prompt' = <<>>
    /\ UNCHANGED <<cfg, visual, realtime, threadVars, cacheState,
                   live, server, stream, tasks, peeked>>

\* The Enter key on the line in the text input
PromptEnter ==
    /\ prompt # <<>>
    /\ executeCommandTyped(prompt, ApiUniform)

\* A line of lines is typed and Enter is pressed, the API answering as one of apis
SessionEnter(lines, apis) ==
    /\ prompt = <<>>
    /\ \E typed \in lines : executeCommandTyped(typed, apis)

\* The lines of a session that moves between conversations
CdLines ==
    { <<"c", "d", " ", "#", "R", "A", "N", "D", "O", "M">>, <<"c", "d", " ", "@", "r", "a", "n", "d", "o", "m">>, <<"c", "d", " ", "r", "a", "n", "d", "o", "m">>, <<"c", "d", " ", "A", "L", "I", "C", "E">>, <<"c", "d", " ", "n", "o", "p", "e">>,
      <<"c", "d", " ", "@">>, <<"c", "d", " ", "#", "a", "l", "i", "c", "e">>, <<"c", "d", " ", "@", "g", "e", "n", "e", "r", "a", "l">>, <<"c", "d", " ", "d", "e", "v">>, <<".", ".">>, <<"l", "s">> }

\* The API's answers to a session that posts nothing
CdApis == {apiOk \in ApiOutcomes : apiOk.post}

CdEnter == SessionEnter(CdLines, CdApis)

\* The lines of a session that moves between workspaces
SourceLines ==
    { <<"s", "o", "u", "r", "c", "e", " ", "w", "1", ".", "y", "a", "m", "l">>, <<"s", "o", "u", "r", "c", "e", " ", "w", "2", ".", "y", "a", "m", "l">>, <<"s", "o", "u", "r", "c", "e", " ", "n", "o", "n", "e", ".", "y", "a", "m", "l">>, <<"s", "o", "u", "r", "c", "e">>,
      <<"s", "o", "u", "r", "c", "e", " ", "w", "1", ".", "y", "a", "m", "l", " ", "|", " ", "g", "r", "e", "p", " ", "w">>, <<"l", "s">>, <<"c", "d", " ", "#", "r", "a", "n", "d", "o", "m">>, <<"c", "d", " ", "@", "a", "l", "i", "c", "e">>,
      <<"c", "d", " ", "d", "e", "v">>, <<".", ".">> }

SourceEnter == SessionEnter(SourceLines, ApiUniform)

\* The lines of a session that opens the live and the browse view
ModeLines ==
    { <<"l", "i", "v", "e">>, <<"b", "r", "o", "w", "s", "e">>, <<"L", "I", "V", "E">>, <<"l", "i", "v", "e", " ", "|", " ", "g", "r", "e", "p", " ", "a">>, <<"c", "d", " ", "#", "r", "a", "n", "d", "o", "m">>,
      <<"c", "d", " ", "@", "a", "l", "i", "c", "e">>, <<"c", "d", " ", "d", "e", "v">>, <<".", ".">> }

ModeEnter == SessionEnter(ModeLines, ApiUniform)

\* The two conversations the live view is opened on, as the Executor lists them
ViewChannels == << Channel(LiveChannel, <<"a">>), Channel(OtherChannel, <<"b">>) >>

\* What Slack holds of a conversation: the history of the live channel, and for the
\* other channel as many messages, with later timestamps, and the messages pushed
\* since
HistoryOf(channelID) ==
    IF channelID = LiveChannel THEN InitHistory
    ELSE [i \in 1..(HistoryLen + server.other) |->
             SlackMessage(HistoryLen + i, "U2", <<"y", "o">>)]

\* client.GetThreadReplies: the thread of a message without replies is the message
ThreadOf(channelID, threadTS) ==
    LET Root(msg) == msg.Timestamp = threadTS
    IN SelectSeq(HistoryOf(channelID), Root)

\* LiveModel.ShouldExit
ShouldExit(m, key) ==
    IF \/ m.inputMode # "InputModeNone"
       \/ m.threadVisible
       \/ m.deleteConfirm
       \/ m.peekMode
       \/ m.showNotifyPanel
    THEN FALSE
    ELSE key = "q"

\* A command as the goroutine that runs it knows it: the closure holds the pointer of
\* the LiveModel that scheduled it (view) and reads that model's channelID (channel)
ViewTask(task, channelID, view) == [channel |-> channelID, view |-> view] @@ task

\* m.liveModel = nil; the number of views opened so far is kept
NoLiveModel(m) == [NewLiveModel EXCEPT !.view = m.view]

\* The lines that move between the two conversations
ViewLines == { <<"c", "d", " ", "#", "a">>, <<"c", "d", " ", "#", "b">> }

\* Model.executeCommand on a cd between the two conversations
ViewCd == SessionEnter(ViewLines, {ApiUp})

\* Model.executeCommand on the line live inside a conversation with a real-time
\* client: startLiveMode creates the LiveModel and schedules its Init, which loads
\* the messages (the load of the members, whose result nothing here reads, is left
\* out).  At most views views are opened.
ViewLive(views) ==
    /\ phase = "run"
    /\ ~browseMode /\ ~liveMode
    /\ prompt = <<>>
    /\ executor.currentChannel # <<>>
    /\ realtime
    /\ live.view < views
    /\ LET m == [NewLiveModel EXCEPT !.channelID = executor.currentChannel[1].ID,
                                     !.view = live.view + 1]
       IN /\ live' = m
          /\ tasks' = Append(tasks, ViewTask(Task("load", 0, <<>>), m.channelID, m.view))
    /\ liveMode' = TRUE
    /\ op' = [name |-> "startLiveMode"]
    /\ calls' = <<>>
    /\ UNCHANGED <<executor, browseMode, phase, realtime, managerVars, threadVars,
                   cacheState, server, stream, peeked, prompt>>

\* Model.Update on a KeyMsg while the live view is open: the view is left when
\* ShouldExit says so, and LiveModel.Update handles the key otherwise, its commands
\* being scheduled; the first command of enterPeekMode's batch returns the
\* PeekModeEnteredMsg at once.  The user presses the keys of keys, types nothing
\* into the compose buffer, does not confirm a deletion and opens no thread in a
\* peeked conversation; at most flight commands are under way.
ViewKey(keys, flight) ==
    /\ phase = "run"
    /\ liveMode
    /\ \E key \in keys :
          IF ShouldExit(live, key)
          THEN /\ liveMode' = FALSE
               /\ live' = NoLiveModel(live)
               /\ tasks' = tasks
               /\ op' = [name |-> "ExitLive", view |-> live.view]
          ELSE LET ret == UpdateKeyMsg(live, key)
                   entered == ~live.peekMode /\ ret.m.peekMode
                   cmd == [i \in 1..Len(ret.cmd) |->
                              ViewTask(ret.cmd[i], live.channelID, live.view)]
                   note == IF entered
                           THEN <<ViewTask([Task("entered", 0, <<>>) EXCEPT !.done = TRUE],
                                           ret.m.peekChannelID, live.view)>>
                           ELSE <<>>
               IN /\ Composing(live) => key \in NamedKeys
                  /\ ~(live.peekMode /\ key = "enter")
                  /\ ~(live.deleteConfirm /\ key \in {"y", "Y"})
                  /\ Len(tasks) + Len(cmd) + Len(note) <= flight
                  /\ live' = ret.m
                  /\ tasks' = tasks \o note \o cmd
                  /\ liveMode' = liveMode
                  /\ op' = [name |-> "KeyMsg", key |-> key,
                            scheduled |-> [i \in 1..Len(cmd) |-> cmd[i].kind]]
    /\ calls' = <<>>
    /\ UNCHANGED <<executor, browseMode, phase, realtime, managerVars, threadVars,
                   cacheState, server, stream, peeked, prompt>>

\* The goroutine of a command of the view makes its call to Slack, which answers
\* or fails as apis allows: the closures of loadMessages, loadOlderMessages and
\* loadThread read the channel of the model that scheduled them; the closure of
\* loadPeekMessages reads m.peekChannelID when it runs, which is empty once the peek
\* is over.
ViewTaskRun(apis) ==
    /\ \E i \in 1..Len(tasks), up \in apis :
          LET task == tasks[i]
              peeking == liveMode /\ live.view = task.view /\ live.peekMode
              from == IF task.kind = "peek" THEN live.peekChannelID ELSE task.channel
              page == GetMessagesWithPagination(
                          HistoryOf(from), PageLimit,
                          IF task.kind = "older" THEN task.ts ELSE 0)
              result ==
                 CASE ~up -> [task EXCEPT !.Err = TRUE]
                   [] task.kind \in {"load", "older"} ->
                         [task EXCEPT !.Messages = page.Messages,
                                      !.HasMore = page.HasMore]
                   [] task.kind = "thread" ->
                         [task EXCEPT !.Messages = ThreadOf(task.channel, task.ts)]
                   [] task.kind = "peek" ->
                         IF peeking
                         THEN [task EXCEPT !.Messages = page.Messages,
                                           !.HasMore = page.HasMore]
                         ELSE [task EXCEPT !.Err = TRUE]
          IN /\ ~task.done
             /\ tasks' = [tasks EXCEPT ![i] = [result EXCEPT !.done = TRUE]]
             /\ op' = [name |-> "TaskRun", kind |-> task.kind]
    /\ calls' = <<>>
    /\ UNCHANGED <<live, shellVars, managerVars, threadVars, cacheState,
                   server, stream, peeked, prompt>>

\* LiveModel.Update on the result message of a command of the view
ViewResult(m, msg) ==
    CASE msg.kind = "load" -> LiveMessagesLoaded(m, msg)
      [] msg.kind = "older" -> LiveOlderMessagesLoaded(m, msg)
      [] msg.kind = "thread" -> LiveThreadLoaded(m, msg)
      [] msg.kind = "peek" -> PeekMessagesLoaded(m, msg)

\* Model.Update on a PeekModeEnteredMsg, as the notification panel is described:
\* selecting an entry clears the unread state of its conversation.  The sources at
\* hand hold the message and its sender (enterPeekMode) but not this case.
PeekModeEntered(channelID) == ClearUnread(channelID)

\* Model.Update on the result message of a finished command, in whatever order the
\* goroutines finished: with a live view open the message is handed to it, whichever
\* view scheduled the command; with none it is dropped.  On a PeekModeEnteredMsg
\* the unread state of the conversation is cleared; op.unread is the count it
\* found.
ViewDeliver ==
    /\ phase = "run"
    /\ \E i \in 1..Len(tasks) :
          LET msg == tasks[i]
          IN /\ msg.done
             /\ tasks' = Without(tasks, i)
             /\ IF msg.kind = "entered"
                THEN /\ PeekModeEntered(msg.channel)
                     /\ live' = live
                ELSE /\ live' = IF liveMode THEN ViewResult(live, msg) ELSE live
                     /\ calls' = <<>>
                     /\ UNCHANGED <<unreadCount, title>>
             /\ op' = [name |-> "Result", kind |-> msg.kind, channel |-> msg.channel,
                       view |-> msg.view, ts |-> msg.ts,
                       unread |-> IF msg.kind = "entered"
                                  THEN GetUnreadForChannel(msg.channel) ELSE 0]
    /\ UNCHANGED <<cfg, visual, shellVars, threadVars, cacheState,
                   server, stream, peeked, prompt>>

\* Somebody posts a message to the other channel and Model.Update handles its
\* IncomingMessageMsg: an open live view takes the message into its list, into the
\* peeked list or into its notifications, and the Manager handles it.  At most last
\* messages are posted.
ViewIncoming(last) ==
    /\ phase = "run"
    /\ realtime
    /\ server.other < last
    /\ LET ts == 2 * HistoryLen + server.other + 1
           newMsg == SlackMessage(ts, "U2", <<"y", "o">>)
           m1 == AddIncomingMessage(live, OtherChannel, newMsg, TRUE)
           m2 == AddPeekIncomingMessage(m1, OtherChannel, newMsg)
           notifyMsg == Message(OtherChannel, GetChannelName(executor, OtherChannel),
                                FALSE)
       IN /\ live' = IF ~liveMode THEN live
                     ELSE IF /\ OtherChannel # m2.channelID
                             /\ ~(m2.peekMode /\ OtherChannel = m2.peekChannelID)
                     THEN AddNotification(m2, OtherChannel)
                     ELSE m2
          /\ HandleMessage(notifyMsg,
                           IF executor.currentChannel = <<>> THEN ""
                           ELSE executor.currentChannel[1].ID,
                           browseMode \/ liveMode)
          /\ op' = [name |-> "IncomingMessageMsg", channel |-> OtherChannel]
    /\ server' = [server EXCEPT !.other = @ + 1]
    /\ UNCHANGED <<cfg, shellVars, threadVars, cacheState, stream, tasks, peeked,
                   prompt>>

\* IsPipeline applied to the line in the text input
CallIsPipeline ==
    /\ prompt # <<>>
    /\ op' = [name |-> "IsPipeline", input |-> prompt, pipe |-> IsPipeline(prompt)]
    /\ UNCHANGED <<prompt, live, server, stream, tasks, peeked, cacheState, notifyVars>>

\* ParsePipeline applied to the line in the text input
CallParsePipeline ==
    /\ prompt # <<>>
    /\ op' = [name |-> "ParsePipeline", input |-> prompt,
              cmds |-> ParsePipeline(prompt)]
    /\ UNCHANGED <<prompt, live, server, stream, tasks, peeked, cacheState, notifyVars>>

(***************************************************************************)
(* Initial states of the cache layer                                       *)
(***************************************************************************)

\* The users.json a cache can find at start: none, or one an earlier run saved, for
\* this team, for another team, or with no team id recorded.
InitUserFiles ==
    {Absent} \cup
    {MarshalUsers(t, [k \in {"U1"} |-> CachedUser("alice", "", "", 0)]) : t \in FileTeams}

\* The channels.json a cache can find at start.
InitChannelFiles ==
    {Absent} \cup
    {MarshalChannels(t, <<CachedChannel("C1", "general", 0)>>,
                     <<CachedChannel("D1", "", 0)>>) : t \in FileTeams}

\* NewUserCache
InitUc(files) ==
    /\ ucFs \in {[final |-> f, tmp |-> Absent] : f \in files}
    /\ ucData = UcLoadResult(EmptyUsers, ucFs["final"], teamID).data
    /\ ucDirty = FALSE
    /\ ucPc = "idle"
    /\ ucBuf = Absent
    /\ ucLast = NoLast
    /\ ucSaved = <<>>

\* NewChannelCache
InitCc(files) ==
    /\ ccFs \in {[final |-> f, tmp |-> Absent] : f \in files}
    /\ ccChannels = CcLoadResult(<<>>, <<>>, ccFs["final"], teamID).channels
    /\ ccDms = CcLoadResult(<<>>, <<>>, ccFs["final"], teamID).dms
    /\ ccDirty = FALSE
    /\ ccPc = "idle"
    /\ ccBuf = Absent
    /\ ccLastCh = <<>>
    /\ ccLastDm = <<>>

\* A behaviour drives one of the two stores: they share no state (each has its own
\* lock and its own file), so the other one stays as constructed.
InitCache ==
    /\ store \in {"users", "channels"}
    /\ now = 0
    /\ teamID \in Teams
    /\ op = [name |-> "New", err |-> FALSE]
    /\ InitUc(IF store = "users" THEN InitUserFiles ELSE {Absent})
    /\ InitCc(IF store = "channels" THEN InitChannelFiles ELSE {Absent})
    /\ NewManager({DefaultConfig})
    /\ NewModel({FALSE})
    /\ ViewAside

\* The in-memory operations of the two stores.
NextMemory ==
    \/ UcSet
    \/ UcSetFullCall
    \/ UcSetBatch
    \/ UcClear
    \/ UcIsExpired
    \/ UcLoad
    \/ UcNew
    \/ CcSetChannels
    \/ CcSetDMs
    \/ CcClear
    \/ CcIsExpired
    \/ CcLoad
    \/ CcNew

\* The stores while the clock runs; the files stay as they were found.
NextCacheClock ==
    \/ NextMemory
    \/ Tick

SpecCacheClock == InitCache /\ [][NextCacheClock]_vars

\* The stores and their files while the clock stands still.
NextCacheDisk ==
    \/ NextMemory
    \/ UcSaveBegin
    \/ UcSaveWrite
    \/ UcSaveRename
    \/ CcSaveBegin
    \/ CcSaveWrite
    \/ CcSaveRename

SpecCacheDisk == InitCache /\ [][NextCacheDisk]_vars

(***************************************************************************)
(* Initial states and specifications of the notification side              *)
(***************************************************************************)

\* The cache stores left aside: no file, nothing stored.
CacheAside ==
    /\ store = "none"
    /\ now = 0
    /\ teamID = "T1"
    /\ InitUc({Absent})
    /\ InitCc({Absent})

\* app.Run: the Manager and the Model as constructed
InitNotify ==
    /\ NewManager(Configs)
    /\ NewModel(BOOLEAN)
    /\ op = [name |-> "NewManager"]
    /\ CacheAside
    /\ ViewAside

\* The session: every call on the Manager is made from the Model's event loop.
NextNotify ==
    \/ ModelInit
    \/ IncomingMessageMsg
    \/ executeCommand
    \/ ExitSubMode
    \/ SetDND
    \/ MuteChannel
    \/ UnmuteChannel
    \/ VisualCleanup

SpecNotify == InitNotify /\ [][NextNotify]_vars

\* The Manager as constructed, with the default configuration, and no session on it.
InitNotifyConc ==
    /\ NewManager({DefaultConfig})
    /\ NewModel({FALSE})
    /\ op = [name |-> "NewManager"]
    /\ CacheAside
    /\ ViewAside

\* HandleMessage and ClearUnread called from the threads of Threads.
NextNotifyConc ==
    \E t \in Threads :
        \/ ThreadHandleMessage(t)
        \/ ThreadClearUnread(t)
        \/ ThreadLock(t)
        \/ ThreadCount(t)
        \/ ThreadTitle(t)
        \/ ThreadVisual(t)

SpecNotifyConc == InitNotifyConc /\ [][NextNotifyConc]_vars

\* The visual configurations the queue is run with on its own: up to MaxQueue items,
\* with and without a sweep, and the sink disabled.
VisualConfigs ==
    {[DefaultConfig EXCEPT !.Visual.MaxItems = n, !.Visual.DismissAfter = d] :
        n \in 1..MaxQueue, d \in {0, DismissAfter}}
    \cup {[DefaultConfig EXCEPT !.Visual.Enabled = FALSE]}

\* NewVisualNotifier, with the Manager that owns it
InitVisual ==
    /\ NewManager(VisualConfigs)
    /\ NewModel({FALSE})
    /\ op = [name |-> "NewVisualNotifier"]
    /\ CacheAside
    /\ ViewAside

\* The methods of the VisualNotifier, each under v.mu from its first statement that
\* touches the queue to its return, the sweep of its cleanup loop, and the clock.
NextVisual ==
    \/ VnNotify
    \/ VnGetNotifications
    \/ VnDismiss
    \/ VnDismissAll
    \/ VnCleanup
    \/ Tick

SpecVisual == InitVisual /\ [][NextVisual]_vars

(***************************************************************************)
(* The live view                                                           *)
(***************************************************************************)

\* The Manager and the shell left aside, with the live view on screen.
ShellAside ==
    /\ NewManager({DefaultConfig})
    /\ executor = [NewExecutor EXCEPT !.channels = Workspace,
                                      !.currentChannel = <<Workspace[1]>>]
    /\ browseMode = FALSE
    /\ liveMode = TRUE
    /\ phase = "run"
    /\ realtime = TRUE
    /\ CacheAside

\* Model.startLiveMode: NewLiveModel, and the two commands of LiveModel.Init, once
\* the member list has come back (the first page has not)
InitLive ==
    /\ live = LiveMembersLoaded(NewLiveModel,
                                [Err |-> FALSE, Members |-> ChannelMembers,
                                 UserNames |-> UserNames])
    /\ server = InitServer
    /\ stream = <<>>
    /\ tasks = <<Task("load", 0, <<>>)>>
    /\ peeked = NoEntry
    /\ prompt = <<>>
    /\ op = [name |-> "NewLiveModel"]
    /\ ShellAside

\* The keys pressed in the message list: moving, reloading, deleting.
LiveKeys == {"up", "down", "R", "d", "y"}

\* The event loop with the live view open: keys, results of commands and realtime
\* messages, handled one at a time, and Slack behind them.
NextLive ==
    \/ Post(MaxTs)
    \/ TaskRun
    \/ TaskDeliver
    \/ LiveIncomingMessageMsg
    \/ KeyMsg(LiveKeys, {}, MaxEdit, MaxTasks)

SpecLive == InitLive /\ [][NextLive]_vars

\* The same loop with fewer commands in flight and more messages posted.
NextStream ==
    \/ Post(MaxStreamTs)
    \/ TaskRun
    \/ TaskDeliver
    \/ LiveIncomingMessageMsg
    \/ KeyMsg(LiveKeys, {}, MaxEdit, StreamTasks)

SpecStream == InitLive /\ [][NextStream]_vars

\* The keys pressed around a peek: the panel, the peek and its exit, deleting and
\* editing the selected message.
PeekKeys == {"n", "enter", "esc", "d", "y", "e", "b"}

\* The event loop with the live view open and another channel to peek at.
NextPeek ==
    \/ Post(MaxTs)
    \/ PostOther
    \/ TaskRun
    \/ TaskDeliver
    \/ LiveIncomingMessageMsg
    \/ KeyMsg(PeekKeys, {"b"}, MaxEdit, MaxTasks)

SpecPeek == InitLive /\ [][NextPeek]_vars

\* LiveModel.Init, once the first page has come back: the member list is on its way
InitCompose ==
    /\ live = LiveMessagesLoaded(NewLiveModel,
                                 [Err |-> FALSE]
                                     @@ GetMessagesWithPagination(InitHistory,
                                                                  PageLimit, 0))
    /\ server = InitServer
    /\ stream = <<>>
    /\ tasks = <<Task("members", 0, <<>>)>>
    /\ peeked = NoEntry
    /\ prompt = <<>>
    /\ op = [name |-> "NewLiveModel"]
    /\ ShellAside

\* The characters typed into the compose buffer.
ComposeRunes == {" ", "@", "a", "l", "B"}

\* The keys pressed while a message is edited.
ComposeKeys == {"tab", "up", "down", "esc"} \cup ComposeRunes

\* The event loop while the user edits the newest message of the live view: e in the
\* message list, and the keys of the compose buffer.
NextCompose ==
    \/ TaskRun
    \/ TaskDeliver
    \/ KeyMsg(IF Composing(live) THEN ComposeKeys ELSE {"e"},
              ComposeRunes, MaxInput, MaxTasks)

SpecCompose == InitCompose /\ [][NextCompose]_vars

(***************************************************************************)
(* The prompt                                                              *)
(***************************************************************************)

\* The Executor of a session on the second workspace once ls has listed its
\* channels and direct messages.
ExampleExecutor ==
    [client |-> ExampleClient, channels |-> ExampleChannels, dms |-> ExampleDMs,
     userNames |-> ExampleUserNames, currentChannel |-> <<>>]

\* The Executors of a session at the prompt: on the workspace of Workspace, new or
\* after cd #dev; on the workspace of ExampleChannels, after ls or after cd #random.
PromptExecutors ==
    { NewExecutor,
      [NewExecutor EXCEPT !.channels = Workspace,
                          !.currentChannel = <<Workspace[2]>>],
      ExampleExecutor,
      [ExampleExecutor EXCEPT !.currentChannel = <<ExampleChannels[4]>>] }

\* A session at the prompt with a line typed into the text input.
InitPrompt ==
    /\ NewManager({DefaultConfig})
    /\ executor \in PromptExecutors
    /\ browseMode = FALSE
    /\ liveMode = FALSE
    /\ phase = "run"
    /\ realtime = FALSE
    /\ op = [name |-> "input.Update"]
    /\ CacheAside
    /\ live = NewLiveModel
    /\ server = InitServer
    /\ stream = <<>>
    /\ tasks = <<>>
    /\ peeked = NoEntry
    /\ prompt \in PromptLines \ {<<>>}

NextPrompt ==
    \/ PromptEnter
    \/ CallIsPipeline
    \/ CallParsePipeline

SpecPrompt == InitPrompt /\ [][NextPrompt]_vars

(***************************************************************************)
(* The session at the prompt                                               *)
(***************************************************************************)

\* app.Run on the client of either workspace, once Model.Init has run without init
\* commands.
InitSession(hasRealtime) ==
    /\ NewManager({DefaultConfig})
    /\ executor \in {[NewExecutor EXCEPT !.client = c] : c \in Clients}
    /\ browseMode = FALSE
    /\ liveMode = FALSE
    /\ phase = "run"
    /\ realtime \in hasRealtime
    /\ op = [name |-> "Init", entered |-> NoChannel]
    /\ CacheAside
    /\ ViewAside

InitCd == InitSession({TRUE})

NextCd == CdEnter

SpecCd == InitCd /\ [][NextCd]_vars

InitSource == InitSession({FALSE})

NextSource == SourceEnter

SpecSource == InitSource /\ [][NextSource]_vars

InitModes == InitSession(BOOLEAN)

NextModes ==
    \/ ModeEnter
    \/ ExitSubMode

SpecModes == InitModes /\ [][NextModes]_vars

(***************************************************************************)
(* The live view opened from the prompt                                    *)
(***************************************************************************)

\* The views opened in one session
MaxViews == 2

\* The keys pressed in the live view
ViewKeys == {"enter", "n", "esc", "q", "i", "d", "1"}

\* A session with a real-time client whose Executor has listed the two conversations
InitView ==
    /\ NewManager({DefaultConfig})
    /\ executor = [NewExecutor EXCEPT !.channels = ViewChannels]
    /\ browseMode = FALSE
    /\ liveMode = FALSE
    /\ phase = "run"
    /\ realtime = TRUE
    /\ op = [name |-> "Init", entered |-> NoChannel]
    /\ CacheAside
    /\ ViewAside

NextView ==
    \/ ViewCd
    \/ ViewLive(MaxViews)
    \/ ViewKey(ViewKeys, MaxTasks)
    \/ ViewTaskRun({TRUE})
    \/ ViewDeliver
    \/ ViewIncoming(MaxOther)

SpecView == InitView /\ [][NextView]_vars

\* The keys pressed in a live view that is left and opened again
ReenterKeys == {"up", "q"}

\* A session that opens the live view, scrolls to older pages, leaves the view and
\* opens it again while commands of the first view are still under way.
NextReenter ==
    \/ ViewCd
    \/ ViewLive(MaxViews)
    \/ ViewKey(ReenterKeys, MaxTasks)
    \/ ViewTaskRun(BOOLEAN)
    \/ ViewDeliver

SpecReenter == InitView /\ [][NextReenter]_vars

(***************************************************************************)
(* Properties of the cache layer                                           *)
(***************************************************************************)

C2_Original ==
    /\ (ccLastCh # <<>> /\ ccLastCh[1] # <<>>) => IDs(GetChannels) = ccLastCh[1]
    /\ (ccLastDm # <<>> /\ ccLastDm[1] # <<>>) => IDs(GetDMs) = ccLastDm[1]

\* C2, amended: after SetChannels(L) (SetDMs(L)) with a non-empty L and no later
\* Set/Clear/Load, GetChannels() (GetDMs()) returns the entries of L while the list's
\* age is at most the TTL and nil once the age exceeds it; the expiry is what
\* IsChannelsExpired (IsDMsExpired) reports, and it hides the list from the getter
\* without purging it: the cache still holds L.
C2_ExpiryHidesList ==
    /\ (ccLastCh # <<>> /\ ccLastCh[1] # <<>>) =>
          /\ IDs(ccChannels) = ccLastCh[1]
          /\ IsChannelsExpired = (now - ccLastCh[2] > TTL)
          /\ IDs(GetChannels) = IF now - ccLastCh[2] > TTL THEN <<>> ELSE ccLastCh[1]
    /\ (ccLastDm # <<>> /\ ccLastDm[1] # <<>>) =>
          /\ IDs(ccDms) = ccLastDm[1]
          /\ IsDMsExpired = (now - ccLastDm[2] > TTL)
          /\ IDs(GetDMs) = IF now - ccLastDm[2] > TTL THEN <<>> ELSE ccLastDm[1]

\* A non-empty channel list set with SetChannels is past its TTL.
C2_Witness ==
    /\ ccLastCh # <<>> /\ ccLastCh[1] # <<>>
    /\ now - ccLastCh[2] > TTL
    /\ GetChannels = <<>> /\ Len(ccChannels) > 0

\* The file at the final path is never half-written and Load parses it.
C3_FileComplete ==
    /\ ucFs["final"].kind # "partial"
    /\ ~UcLoadResult(EmptyUsers, ucFs["final"], teamID).err
    /\ ccFs["final"].kind # "partial"
    /\ ~CcLoadResult(<<>>, <<>>, ccFs["final"], teamID).err

\* The file at the final path changes only to the complete snapshot Save marshalled.
C3_Step ==
    /\ ucFs'["final"] # ucFs["final"] => ucFs'["final"] = ucBuf /\ ucBuf.kind = "file"
    /\ ccFs'["final"] # ccFs["final"] => ccFs'["final"] = ccBuf /\ ccBuf.kind = "file"

\* C3: the on-disk cache file is never observed half-written.  At every step of every
\* Save (also one that fails, or is cut short by a crash and followed by a restart)
\* the file at the final path holds the complete snapshot saved before or the
\* complete new one, so a Load of it reads a complete snapshot.
C3_AtomicSave == []C3_FileComplete /\ [][C3_Step]_vars

\* Save is in the middle of writing the temp file while the final path still holds
\* the snapshot saved before.
C3_Witness ==
    /\ ucPc = "writing"
    /\ ucFs["tmp"] = Partial
    /\ ucFs["final"].kind = "file"
    /\ ucFs["final"] # ucBuf

\* The dirty flag, the Save position and the files of the store the behaviour drives.
Dirty == IF store = "users" THEN ucDirty ELSE ccDirty

SavePc == IF store = "users" THEN ucPc ELSE ccPc

Files == IF store = "users" THEN ucFs ELSE ccFs

\* After Set, SetFull, a non-empty SetBatch or Clear the store is dirty; after a Save
\* that returned nil it is clean; after a Save that returned an error it is dirty.
C4_DirtyAfter ==
    /\ op.name \in {"SetFull", "SetBatch", "Clear", "SetChannels", "SetDMs"} => Dirty
    /\ (op.name = "Save" /\ ~op.err) => ~Dirty
    /\ (op.name = "Save" /\ op.err) => Dirty /\ SavePc = "idle"

\* Save on a clean store writes nothing and returns nil, and no file is written
\* unless the store is dirty.
C4_Step ==
    /\ (op'.name = "Save" /\ SavePc = "idle" /\ ~Dirty) =>
          Files' = Files /\ ~op'.err /\ SavePc' = "idle"
    /\ Files' # Files => Dirty

\* C4: Save writes to storage only when the store is dirty.  Set, SetFull, Clear and
\* a non-empty SetBatch make the store dirty; Save on a clean store writes nothing and
\* returns nil; a successful Save makes the store clean; a Save whose write or rename
\* fails returns the error and leaves the store dirty.
C4_SaveOnlyWhenDirty == []C4_DirtyAfter /\ [][C4_Step]_vars

\* A Save failed after the temp file was written, and the store is still dirty.
C4_Witness ==
    /\ store = "users"
    /\ op.name = "Save" /\ op.err
    /\ ucDirty
    /\ ucFs["tmp"] = Absent /\ ucFs["final"].kind = "file"
    /\ ucSaved # <<>>

\* Load (or the constructor's Load) has just read a file that records team id t.
LoadedFileOf(fs, t) ==
    /\ op.name \in {"Load", "New"}
    /\ fs["final"].kind = "file"
    /\ fs["final"].team = t

\* The store holds nothing and Load reported no error.
Discarded ==
    /\ ~op.err
    /\ store = "users" =>
          /\ ucData = EmptyUsers
          /\ ToMap = EmptyUsers
          /\ \A k \in UserIDs : Get(k) = <<"", FALSE>>
    /\ store = "channels" =>
          /\ ccChannels = <<>> /\ ccDms = <<>>
          /\ GetChannels = <<>> /\ GetDMs = <<>>

C6_RoundTrip ==
    (store = "users" /\ op.name = "New" /\ ucSaved # <<>>) =>
        /\ ToMap = ucSaved[1]
        /\ Size = Cardinality(DOMAIN ucSaved[1])
        /\ \A k \in UserIDs :
              Get(k) = IF k \in DOMAIN ucSaved[1] THEN <<ucSaved[1][k], TRUE>>
                       ELSE <<"", FALSE>>

\* A new cache has loaded a saved file that holds both user ids.
C6_Witness ==
    /\ store = "users" /\ op.name = "New"
    /\ ucSaved # <<>>
    /\ DOMAIN ucSaved[1] = UserIDs
    /\ ToMap = ucSaved[1]

(***************************************************************************)
(* Properties of the notification side                                     *)
(***************************************************************************)

\* The mute list holds the message's conversation: an entry equal to its id, or equal
\* to its display name when both are put in lower case.
OnMuteList(msg) ==
    \E i \in 1..Len(cfg.MuteChannels) :
        \/ cfg.MuteChannels[i] = msg.ChannelID
        \/ ToLower(cfg.MuteChannels[i]) = ToLower(msg.ChannelName)

\* The step changed no unread counter and invoked no sink.
EventDropped ==
    /\ unreadCount' = unreadCount
    /\ calls' = <<>>
    /\ title' = title
    /\ visual' = visual

\* A HandleMessage step with the coordinator disabled, DND on or the conversation
\* muted drops the event; with DND on a counter that is 0 stays 0.
C7_Step ==
    /\ (op'.name = "HandleMessage" /\ (~cfg.Enabled \/ cfg.DND \/ OnMuteList(op'.msg)))
          => EventDropped
    /\ \A c \in ChannelIDs :
          (op'.name = "HandleMessage" /\ cfg.DND /\ GetUnreadForChannel(c) = 0)
             => Count(unreadCount', c) = 0

\* C7: HandleMessage drops the event (no conversation's unread counter changes and
\* none of the bell, desktop, title and visual sinks is invoked) whenever the
\* coordinator is disabled, or DND is on, or the source conversation is on the mute
\* list (an entry equal to its id, or equal to its display name ignoring case); with
\* DND on, GetUnreadForChannel stays 0 for every conversation over any sequence of
\* inbound messages.
C7_FiltersDrop == [][C7_Step]_vars

\* A message from the channel named Dev was dropped because the mute list holds
\* "dev", with the coordinator enabled and DND off.
C7_Witness ==
    /\ op.name = "HandleMessage"
    /\ cfg.Enabled /\ ~cfg.DND
    /\ op.msg.ChannelName = <<"D", "e", "v">>
    /\ \E i \in 1..Len(cfg.MuteChannels) : cfg.MuteChannels[i] = <<"d", "e", "v">>
    /\ \A i \in 1..Len(cfg.MuteChannels) : cfg.MuteChannels[i] # op.msg.ChannelID
    /\ calls = <<>>
    /\ GetUnreadForChannel(op.msg.ChannelID) = 0
    /\ GetTotalUnread > 0

\* A HandleMessage step past the disabled, DND and mute filters: dropped when the
\* message's conversation is the one open in the main view and neither the browse nor
\* the live view is up, else that conversation's counter goes up by 1 and no other
\* counter changes.
C8_Step ==
    (op'.name = "HandleMessage" /\ cfg.Enabled /\ ~cfg.DND /\ ~OnMuteList(op'.msg)) =>
        IF op'.msg.ChannelID = CurrentChannelID(executor) /\ ~(browseMode \/ liveMode)
        THEN EventDropped
        ELSE \A c \in ChannelIDs :
                Count(unreadCount', c) =
                    GetUnreadForChannel(c) + (IF c = op'.msg.ChannelID THEN 1 ELSE 0)

C9_Step ==
    (op'.name \in {"executeCommand", "Init"} /\ op'.entered # NoChannel) =>
        /\ Count(unreadCount', op'.entered) = 0
        /\ \A c \in ChannelIDs \ {op'.entered} :
              Count(unreadCount', c) = GetUnreadForChannel(c)
        /\ cfg.Title.Enabled => calls' = <<Call("title", getTotalUnreadLocked(unreadCount'))>>

\* C9 as stated: entering a conversation C by a successful cd, typed as a single
\* command, given as the first stage of a pipeline or run as an init command, sets
\* C's unread counter to 0, leaves every other counter unchanged and pushes the new
\* aggregate total to the title sink.
C9_Original == [][C9_Step]_vars

\* C10 as stated: every value passed to the title sink equals the sum of the unread
\* counters at the time of the update, and once every call of HandleMessage and
\* ClearUnread made from the threads has returned, the last value delivered to the
\* title sink is the one for the current aggregate total.
C10_Original ==
    /\ \A i \in 1..Len(calls) :
          calls[i].sink = "title" => calls[i].count = GetTotalUnread
    /\ ((\A t \in Threads : threads[t].pc = "idle") /\ title # TitleUnset)
          => title = TitleText(GetTotalUnread)

\* The last clause of C10 alone: with every call returned, the title shows the
\* aggregate total.
C10_Quiescent ==
    ((\A t \in Threads : threads[t].pc = "idle") /\ title # TitleUnset)
        => title = TitleText(GetTotalUnread)

\* The last step invoked the sink.
Triggered(sink) == \E i \in 1..Len(calls') : calls'[i].sink = sink

\* A HandleMessage step whose message passed the four filters: each of the audible and
\* the desktop sink is invoked exactly when it is enabled and its own mentions-only
\* toggle is off or the message is a mention, and the conversation's counter goes up
\* by 1 whatever the two decisions are.
C11_Step ==
    (/\ op'.name = "HandleMessage"
     /\ cfg.Enabled /\ ~cfg.DND /\ ~OnMuteList(op'.msg)
     /\ ~(op'.msg.ChannelID = op'.currentChannelID /\ ~op'.inTailMode)) =>
        /\ Triggered("bell") <=>
              (cfg.Bell.Enabled /\ (~cfg.Bell.MentionsOnly \/ op'.msg.IsMention))
        /\ Triggered("desktop") <=>
              (cfg.Desktop.Enabled /\ (~cfg.Desktop.MentionsOnly \/ op'.msg.IsMention))
        /\ Count(unreadCount', op'.msg.ChannelID) =
              GetUnreadForChannel(op'.msg.ChannelID) + 1

\* C11: for each accepted message the audible sink is triggered if and only if bell is
\* enabled and (bell mentions-only is off or the message's mention flag is set), and
\* the desktop sink is triggered if and only if desktop is enabled and (desktop
\* mentions-only is off or the mention flag is set); the two decisions are independent
\* of each other and neither affects whether the unread counter is incremented.
C11_SinkDecisions == [][C11_Step]_vars

\* A message that is no mention was counted and reached the desktop sink but not the
\* audible one, which is on mentions only.
C11_Witness ==
    /\ op.name = "HandleMessage"
    /\ ~op.msg.IsMention
    /\ cfg.Bell.Enabled /\ cfg.Bell.MentionsOnly
    /\ cfg.Desktop.Enabled /\ ~cfg.Desktop.MentionsOnly
    /\ GetUnreadForChannel(op.msg.ChannelID) > 0
    /\ \E i \in 1..Len(calls) : calls[i].sink = "desktop"
    /\ \A i \in 1..Len(calls) : calls[i].sink # "bell"

(***************************************************************************)
(* Properties of the visual queue                                          *)
(***************************************************************************)

\* The queue holds at most MaxItems items, in the order they were inserted.
C12_Bounded ==
    /\ Len(visual) <= cfg.Visual.MaxItems
    /\ \A i \in 1..Len(visual), j \in 1..Len(visual) :
          i < j => visual[i].createdAt <= visual[j].createdAt

\* The last n items of a list, all of it when it has no more than n.
LastN(list, n) ==
    IF Len(list) > n THEN SubSeq(list, Len(list) - n + 1, Len(list)) ELSE list

\* A Notify step on an enabled queue leaves the last MaxItems items of the queue
\* with the new item appended.
C12_NotifyStep ==
    (op'.name = "VisualNotifier.Notify" /\ cfg.Visual.Enabled) =>
        /\ Len(visual') >= 1
        /\ visual'[Len(visual')].createdAt = now
        /\ SubSeq(visual', 1, Len(visual') - 1) = LastN(visual, cfg.Visual.MaxItems - 1)

\* The items of the queue whose age is in ages, in the order of the queue.
Aged(queue, ages) ==
    LET In(item) == (now - item.createdAt) \in ages
    IN SelectSeq(queue, In)

\* A sweep keeps the items younger than DismissAfter, in order.
C12_SweepStep ==
    op'.name = "VisualNotifier.cleanup" =>
        visual' = Aged(visual, 0..(cfg.Visual.DismissAfter - 1))

\* C12 as stated: each periodic sweep removes exactly the entries older than
\* DismissAfter and keeps the rest in order.
C12_Original ==
    [][op'.name = "VisualNotifier.cleanup" =>
          visual' = Aged(visual, 0..cfg.Visual.DismissAfter)]_vars

\* C12: the visual queue is bounded and time-windowed: after every Notify the queue
\* holds at most MaxItems entries, which are the most recently inserted ones in
\* insertion order (the oldest are dropped first); each periodic sweep removes
\* exactly the entries whose age is DismissAfter or more (an entry exactly
\* DismissAfter old goes too) and keeps the rest in order; this holds for any
\* interleaving of Notify, Dismiss, DismissAll, GetNotifications and the sweep.
C12_BoundedWindow == []C12_Bounded /\ [][C12_NotifyStep /\ C12_SweepStep]_vars

\* A sweep found two items, took the one that was exactly DismissAfter old and kept
\* the younger one.
C12_Witness ==
    /\ op.name = "VisualNotifier.cleanup"
    /\ Len(op.before) = 2
    /\ now - op.before[1].createdAt = cfg.Visual.DismissAfter
    /\ visual = <<op.before[2]>>


(***************************************************************************)
(* Properties of the live view                                             *)
(***************************************************************************)

\* The message under the selection, <<>> when the selection is on none.
Selected(m) ==
    IF m.selectedIndex >= 0 /\ m.selectedIndex < Len(m.messages)
    THEN <<m.messages[m.selectedIndex + 1]>>
    ELSE <<>>

\* A step that applies an older page of one message or more: the window becomes the
\* page followed by the window as it was, selectedIndex and scrollOffset grow by the
\* length of the page, and the message under the selection stays the same.
C13_Step ==
    (op'.name = "LiveOlderMessagesLoadedMsg" /\ op'.applied >= 1) =>
        \E i \in 1..Len(tasks) :
            LET page == tasks[i].Messages
            IN /\ tasks[i].kind = "older" /\ tasks[i].done
               /\ Len(page) = op'.applied
               /\ live'.messages = page \o live.messages
               /\ live'.selectedIndex = live.selectedIndex + Len(page)
               /\ live'.scrollOffset = live.scrollOffset + Len(page)
               /\ Selected(live) # <<>> => Selected(live') = Selected(live)

\* C13: when an older page of N >= 1 messages is applied, the window becomes the page
\* followed by the previous window and selectedIndex and scrollOffset both grow by
\* exactly N, so the message selected before is the message selected after, whatever
\* the loop handled while the fetch was in flight.
C13_OlderPageShifts == [][C13_Step]_vars

\* A page of PageLimit messages has been applied after the loop handled other events
\* during the fetch, and a message is selected.
C13_Witness ==
    /\ op.name = "LiveOlderMessagesLoadedMsg"
    /\ op.applied = PageLimit
    /\ op.overtaken
    /\ Selected(live) # <<>>
    /\ live.selectedIndex >= PageLimit

\* The timestamps of the window never go down from one message to the next.
Ascending(messages) ==
    \A i, j \in 1..Len(messages) :
        i < j => messages[i].Timestamp <= messages[j].Timestamp

\* C14: the loaded message window is in ascending timestamp order in every reachable
\* state, after any interleaving of initial load, reload, older-page prepend,
\* realtime append and delete.
C14_Original == Ascending(live.messages)

(***************************************************************************)
(* Properties of the peek                                                  *)
(***************************************************************************)

\* The step leaves the peek.
ExitsPeek == live.peekMode /\ ~live'.peekMode

\* The view after the step is the view as enterPeekMode found it.
RestoresEntry ==
    /\ live'.channelID = peeked.channelID
    /\ live'.messages = peeked.messages
    /\ live'.scrollOffset = peeked.scrollOffset
    /\ live'.selectedIndex = peeked.selectedIndex

RestoresSnapshot ==
    /\ Len(live'.messages) = Len(peeked.messages)
    /\ \A k \in 1..Len(peeked.messages) : live'.messages[k] = peeked.messages[k]
    /\ live'.scrollOffset = peeked.scrollOffset
    /\ live'.selectedIndex = peeked.selectedIndex

LastAt(text) ==
    LET ats == {i \in 1..Len(text) : text[i] = "@"}
    IN IF ats = {} THEN 0 ELSE CHOOSE i \in ats : \A j \in ats : j <= i

\* The text has an '@' and no white space after the last one.
OpenMention(text) ==
    /\ LastAt(text) > 0
    /\ \A j \in (LastAt(text) + 1)..Len(text) : ~IsSpace(text[j])

\* The first n elements of s, all of them if it has fewer.
FirstN(s, n) == SubSeq(s, 1, Min(n, Len(s)))

\* The names of the members with a name that starts with the text after the last
\* '@', whatever the case of the letters, in the order of the member list, MentionLimit
\* of them at most.
ExpectedNames(m) ==
    LET text == m.inputText
        typed == SubSeq(text, LastAt(text) + 1, Len(text))
        Named(id) == id \in DOMAIN m.userCache
        StartsWith(id) ==
            /\ Len(m.userCache[id]) >= Len(typed)
            /\ EqualFold(SubSeq(m.userCache[id], 1, Len(typed)), typed)
        matching == SelectSeq(SelectSeq(m.channelMembers, Named), StartsWith)
    IN FirstN([i \in 1..Len(matching) |-> m.userCache[matching[i]]], MentionLimit)

\* The names of m.mentionCandidates.
CandidateNames(m) ==
    [i \in 1..Len(m.mentionCandidates) |-> m.mentionCandidates[i].UserName]

\* The candidate list is on show: it is the list of the buffer as it stands.
C17_Shown ==
    (Composing(live) /\ live.mentionActive) =>
        /\ OpenMention(live.inputText)
        /\ CandidateNames(live) = ExpectedNames(live)

\* A character typed with the member list loaded, or the member list arriving while
\* the user composes, leaves the candidates of the new buffer.
C17_Typed ==
    LET typed == op'.name = "KeyMsg" /\ op'.key \in ComposeRunes /\ live.membersLoaded
        loaded == op'.name = "LiveMembersLoadedMsg" /\ Composing(live')
    IN ((typed \/ loaded) /\ OpenMention(live'.inputText)) =>
          /\ CandidateNames(live') = ExpectedNames(live')
          /\ live'.mentionActive = (ExpectedNames(live') # <<>>)

\* Tab on a shown candidate list replaces the buffer from its last '@' on with '@',
\* the name of the candidate under the cursor and one space.
C17_Accepted ==
    (op'.name = "KeyMsg" /\ op'.key = "tab" /\ live.mentionActive) =>
        LET candidate == live.mentionCandidates[live.mentionIndex + 1]
        IN live'.inputText =
              SubSeq(live.inputText, 1, LastAt(live.inputText) - 1)
                  \o <<"@">> \o candidate.UserName \o <<" ">>

\* The buffer "hi @al" with the members alice, albert and Bob shows alice and albert.
C17_Example ==
    (Composing(live) /\ live.membersLoaded
        /\ live.inputText = <<"h", "i", " ", "@", "a", "l">>
        /\ live.mentionActive) =>
        CandidateNames(live) = << <<"a", "l", "i", "c", "e">>,
                                  <<"a", "l", "b", "e", "r", "t">> >>

SendEntered(f) ==
    /\ op.name = "executeCommand"
    /\ op.input = f.verb \o f.lead \o <<f.q>> \o f.body \o <<f.q>>
    /\ op.before.currentChannel # <<>>

\* C18 as the specification states it: a send whose message is typed between two
\* matching quote characters posts the text between the quotes, without the quote
\* characters and with its whitespace kept.
C18_Original ==
    \A f \in SendForms : SendEntered(f) => op.posted = <<f.body>>

\* C18, amended: such a send posts what follows the verb as it was typed, the two
\* quote characters included and the whitespace between them kept; between two
\* quote characters with nothing inside there is no message and nothing is posted.
C18_RawText ==
    \A f \in SendForms :
        SendEntered(f) =>
            op.posted = IF f.body = <<>> THEN <<>>
                        ELSE << <<f.q>> \o f.body \o <<f.q>> >>

\* send "hello world" was executed in a channel, and the text posted begins and ends
\* with the quote character.
C18_Witness ==
    /\ op.name = "executeCommand"
    /\ op.input = <<"s", "e", "n", "d", " ">> \o <<"\"">>
                     \o <<"h", "e", "l", "l", "o", " ", "w", "o", "r", "l", "d">> \o <<"\"">>
    /\ op.before.currentChannel # <<>>
    /\ op.result.Error = ""
    /\ op.posted = << <<"\"">> \o <<"h", "e", "l", "l", "o", " ", "w", "o", "r", "l", "d">>
                              \o <<"\"">> >>

\* The first place at or after from where input holds a character of chars,
\* Len(input) + 1 when there is none
FirstAt(input, from, chars) ==
    LET at == {j \in from..Len(input) : input[j] \in chars}
    IN IF at = {} THEN Len(input) + 1 ELSE CHOOSE j \in at : \A k \in at : j <= k

RECURSIVE Quotations(_, _)
\* The quotations of input from the place from on, each as the places of its opening
\* and of its closing quote character: a quotation opens at the first quote
\* character, closes at the next occurrence of the same character (past the end of
\* the input when there is none), and the next quotation is looked for after it.
Quotations(input, from) ==
    LET open == FirstAt(input, from, {"\"", "'"})
    IN IF open > Len(input) THEN {}
       ELSE LET close == FirstAt(input, open + 1, {input[open]})
            IN {<<open, close>>}
                 \cup (IF close > Len(input) THEN {} ELSE Quotations(input, close + 1))

\* The place p lies between an opening quote character and its closing one
InQuotes(input, p) == \E q \in Quotations(input, 1) : q[1] < p /\ p < q[2]

\* The places of the bars outside quotes
Separators(input) ==
    {p \in 1..Len(input) : input[p] = "|" /\ ~InQuotes(input, p)}

\* The pieces of input between its bars outside quotes, a last piece that is empty
\* left out
Pieces(input) ==
    LET seps == Separators(input)
        n == Cardinality(seps)
        Before(p) == Cardinality({s \in seps : s < p})
        \* where the k-th piece starts and ends
        First(k) == IF k = 1 THEN 1 ELSE (CHOOSE s \in seps : Before(s) = k - 2) + 1
        Last(k) == IF k = n + 1 THEN Len(input)
                   ELSE (CHOOSE s \in seps : Before(s) = k - 1) - 1
        all == [k \in 1..(n + 1) |-> SubSeq(input, First(k), Last(k))]
    IN IF all[n + 1] = <<>> THEN SubSeq(all, 1, n) ELSE all

\* C19: a bar between an opening quote character and its closing one never separates
\* two stages.  IsPipeline answers true exactly for the lines with a bar outside
\* quotes, executeCommand takes the pipeline branch exactly for those lines, and the
\* stages ParsePipeline returns are the commands of the pieces between the bars
\* outside quotes, in order.
C19_QuotedBar ==
    /\ op.name = "IsPipeline" => (op.pipe <=> Separators(op.input) # {})
    /\ op.name = "executeCommand" => (op.pipe <=> Separators(op.input) # {})
    /\ op.name = "ParsePipeline" =>
          LET input == TrimSpace(op.input)
              pieces == Pieces(input)
          IN IF input = <<>>
             THEN Len(op.cmds) = 1 /\ op.cmds[1].Type = "CmdUnknown"
             ELSE /\ Len(op.cmds) = Len(pieces)
                  /\ Len(op.cmds) <= Cardinality(Separators(input)) + 1
                  /\ \A k \in 1..Len(pieces) :
                        op.cmds[k] = ParseCommand(TrimSpace(pieces[k]))

\* ParsePipeline was applied to a line with a bar between quotes and a bar outside
\* them, and returned two stages.
C19_Witness ==
    /\ op.name = "ParsePipeline"
    /\ \E p \in 1..Len(op.input) : op.input[p] = "|" /\ InQuotes(op.input, p)
    /\ Cardinality(Separators(op.input)) = 1
    /\ Len(op.cmds) = 2

\* The line contains the pattern when the case of the letters is ignored
ContainsFold(line, pattern) ==
    \E at \in 0..(Len(line) - Len(pattern)) :
        \A j \in 1..Len(pattern) : ToLowerRune(line[at + j]) = ToLowerRune(pattern[j])

\* The lines of output that contain the pattern, in their order
LinesWith(output, pattern) ==
    LET kept == {i \in 1..Len(output) : ContainsFold(output[i], pattern)}
        Nth(k) == CHOOSE i \in kept : Cardinality({j \in kept : j < i}) = k - 1
    IN [k \in 1..Cardinality(kept) |-> output[Nth(k)]]

\* C20: the pipeline of a producer and grep P returns the lines of the producer's
\* output that contain P, the case of the letters ignored, in their order, and the
\* text "No matches found." when there is none, never the empty string; ls | grep dev
\* over general, dev-backend, dev-frontend and random returns the two dev entries.
C20_GrepFilter ==
    /\ \A f \in GrepForms :
          op.name = "executeCommand" /\ op.input = GrepLine(f) =>
             LET produced == Execute(op.before, ParseCommand(f.producer), op.apiOk)
                 lines == LinesWith(produced.Output, f.pattern)
             IN produced.Error = "" /\ ~produced.Exit =>
                   /\ op.result.Error = ""
                   /\ op.result.Output =
                         IF lines = <<>> THEN << <<"N", "o", " ", "m", "a", "t", "c", "h", "e", "s", " ", "f", "o", "u", "n", "d", ".">> >> ELSE lines
                   /\ op.result.Output \notin {<<>>, << <<>> >>}
    /\ ( /\ op.name = "executeCommand"
         /\ op.input = <<"l", "s", " ", "|", " ", "g", "r", "e", "p", " ", "d", "e", "v">>
         /\ op.before.channels = ExampleChannels )
       => op.result.Output = << <<" ", " ", "#", " ", "d", "e", "v", "-", "b", "a", "c", "k", "e", "n", "d">>, <<" ", " ", "#", " ", "d", "e", "v", "-", "f", "r", "o", "n", "t", "e", "n", "d">> >>

\* ls | grep DEV was executed over the four channels and returned the two dev
\* entries.
C20_Witness ==
    /\ op.name = "executeCommand"
    /\ op.input = <<"l", "s", " ", "|", " ", "g", "r", "e", "p", " ", "D", "E", "V">>
    /\ op.before.channels = ExampleChannels
    /\ op.result.Output = << <<" ", " ", "#", " ", "d", "e", "v", "-", "b", "a", "c", "k", "e", "n", "d">>, <<" ", " ", "#", " ", "d", "e", "v", "-", "f", "r", "o", "n", "t", "e", "n", "d">> >>

\* A grep that matched no line was executed and returned the text that says so.
GrepNoMatchReached ==
    /\ op.name = "executeCommand"
    /\ op.input = <<"l", "s", " ", "|", " ", "g", "r", "e", "p", " ", "z", "z", "z">>
    /\ op.result.Output = << <<"N", "o", " ", "m", "a", "t", "c", "h", "e", "s", " ", "f", "o", "u", "n", "d", ".">> >>

\* C21: a grep stage written with the -i flag before its pattern filters by that
\* pattern, as the same stage without the flag does: the pipeline returns the lines
\* of the producer's output that contain the pattern, the case of the letters
\* ignored, and "No matches found." when there is none.
C21_Original ==
    \A f \in GrepForms :
        op.name = "executeCommand" /\ op.input = GrepFlagLine(f) =>
           LET produced == Execute(op.before, ParseCommand(f.producer), op.apiOk)
               lines == LinesWith(produced.Output, f.pattern)
           IN produced.Error = "" /\ ~produced.Exit =>
                 op.result.Output =
                    IF lines = <<>> THEN << <<"N", "o", " ", "m", "a", "t", "c", "h", "e", "s", " ", "f", "o", "u", "n", "d", ".">> >> ELSE lines

\* The pipeline of form f was typed and Enter was pressed
StageEntered(f) == op.name = "executeCommand" /\ op.input = StageLine(f)

\* C22 as the specification states it: a pipeline with a stage after the first that
\* is no grep returns an error and no output, whatever its first stage is.
C22_Original ==
    \A f \in StageForms :
        StageEntered(f) => op.result.Error # "" /\ op.result.Output = <<>>

\* C22, amended: such a pipeline returns an error and no output unless its first
\* stage is exit, whose result (Exit, no error, no output) is returned as it is; the
\* error is the first stage's own when the first stage fails, and the composition
\* error otherwise.  The first stage has run in every case.
C22_Composition ==
    \A f \in StageForms :
        StageEntered(f) =>
           LET first == Execute(op.before, ParseCommand(f.producer), op.apiOk)
           IN /\ op.pipe
              /\ op.result.Output = <<>>
              /\ op.result.e = first.e
              /\ IF first.Exit
                 THEN op.result.Exit /\ op.result.Error = ""
                 ELSE /\ ~op.result.Exit
                      /\ op.result.Error =
                            IF first.Error # "" THEN first.Error ELSE "cannot pipe"

\* ls | grep dev | cd #dev was executed: the listing was produced and filtered, and
\* the result holds the composition error and no line.
C22_Witness ==
    /\ StageEntered([producer |-> <<"l", "s">>, stage |-> <<"c", "d", " ", "#", "d", "e", "v">>, grep |-> TRUE])
    /\ op.result.Error = "cannot pipe"
    /\ op.result.Output = <<>>
    /\ op.result.e.channels # <<>>

(***************************************************************************)
(* Properties of the session at the prompt                                 *)
(***************************************************************************)

\* The command made the API call and the call succeeded
Fetched(o, call) ==
    /\ o.name = "executeCommand"
    /\ \E i \in 1..Len(o.result.Calls) : o.result.Calls[i] = call
    /\ IF call = "GetChannels" THEN o.apiOk.channels ELSE o.apiOk.dms

\* The command is a cd that asked the API for the list
Fetches(o, call) ==
    /\ o.name = "executeCommand"
    /\ ~o.pipe /\ o.cmds # <<>> /\ o.cmds[1].Type = "CmdCd"
    /\ \E i \in 1..Len(o.result.Calls) : o.result.Calls[i] = call

\* C23: cd fetches the conversation list from the remote API only when it has not
\* been loaded yet: a command that follows one whose fetch of the channel list
\* succeeded is not a cd that asks for the channel list again, and a command that
\* follows one whose fetch of the direct-message list succeeded is not a cd that asks
\* for that list again
\* (the session is on one workspace throughout).
C23_Original ==
    [][/\ Fetched(op, "GetChannels") => ~Fetches(op', "GetChannels")
       /\ Fetched(op, "GetDMs") => ~Fetches(op', "GetDMs")]_vars

\* The command is a cd with a target, entered alone on the line
IsCd(o) ==
    /\ o.name = "executeCommand"
    /\ ~o.pipe /\ o.cmds # <<>>
    /\ o.cmds[1].Type = "CmdCd"
    /\ Len(o.cmds[1].Args) > 0

\* A channel of the client's workspace has the name, case ignored
ChannelNamed(client, name) ==
    \E i \in 1..Len(ClientGetChannels(client)) :
        EqualFold(ClientGetChannels(client)[i].Name, name)

\* A direct-message conversation of the client's workspace is with the user of that
\* name or ID, case ignored
DMNamed(client, name) ==
    LET dms == ClientGetDMs(client)
        names == ClientGetUsersInfo(client, UserIDsOf(dms))
    IN \E i \in 1..Len(dms) :
          \/ EqualFold(names[dms[i].UserID], name)
          \/ EqualFold(dms[i].UserID, name)

\* The target of cd names a conversation of the workspace
Matches(client, target) ==
    IF HasPrefix(target, <<"#">>) THEN ChannelNamed(client, TrimPrefix(target, <<"#">>))
    ELSE IF HasPrefix(target, <<"@">>) THEN DMNamed(client, TrimPrefix(target, <<"@">>))
    ELSE ChannelNamed(client, target) \/ DMNamed(client, target)

\* C24: cd to a name that matches no conversation returns a Result error and leaves
\* the current location as it was, and the session is at the prompt again, in no
\* sub-mode and not quitting.
C24_Original ==
    (IsCd(op) /\ ~Matches(op.before.client, op.cmds[1].Args[1])) =>
        /\ op.result.Error # ""
        /\ executor.currentChannel = op.before.currentChannel
        /\ phase = "run" /\ ~browseMode /\ ~liveMode
        /\ ENABLED CdEnter

\* The command was a source that Model.executeCommand answered with a switch
Switched(o) ==
    /\ o.name = "executeCommand"
    /\ ~o.result.Exit
    /\ o.result.Error = ""
    /\ o.result.SwitchWorkspace # <<>>

\* The elements of a list
Elements(list) == {list[i] : i \in 1..Len(list)}

\* What the Executor holds comes from the workspace of its client
OfItsClient(e) ==
    /\ Elements(e.channels) \subseteq Elements(ClientGetChannels(e.client))
    /\ Elements(e.dms) \subseteq Elements(ClientGetDMs(e.client))
    /\ Elements(e.currentChannel) \subseteq
          Elements(ClientGetChannels(e.client)) \cup Elements(ClientGetDMs(e.client))
    /\ \A u \in DOMAIN e.userNames :
          e.userNames[u] = ClientGetUsersInfo(e.client, <<u>>)[u]

\* C25: after a workspace switch the Executor uses the new client, its channel list,
\* its direct-message list and its user names are empty and the location is root,
\* whatever they were before; and at every moment the lists, the names and the
\* location the Executor holds are of the workspace of its client, so that a
\* conversation of the workspace left is neither listed nor entered.
C25_SwitchResets ==
    /\ Switched(op) =>
          executor = [client |-> op.result.SwitchWorkspace[1],
                      channels |-> <<>>, dms |-> <<>>,
                      userNames |-> NoUserNames, currentChannel |-> <<>>]
    /\ OfItsClient(executor)

\* A switch to the other workspace from inside a conversation, with both lists and
\* the names loaded
C25_Witness ==
    /\ Switched(op)
    /\ op.before.client # executor.client
    /\ op.before.currentChannel # <<>>
    /\ op.before.channels # <<>>
    /\ op.before.dms # <<>>
    /\ op.before.userNames # NoUserNames
    /\ executor.currentChannel = <<>>

\* The command was a live or a browse entered alone on the line
IsModeVerb(o) ==
    /\ o.name = "executeCommand"
    /\ ~o.pipe /\ o.cmds # <<>>
    /\ o.cmds[1].Type \in {"CmdBrowse", "CmdLive"}

\* C26: live or browse entered at root, or live entered while there is no real-time
\* client, appends a message to the history and makes no transition: liveMode and
\* browseMode are false, the Executor (its location with it) is as it was, no command
\* of a view is in flight, and the prompt, emptied, accepts the next line.
C26_NoTransition ==
    LET atRoot == op.before.currentChannel = <<>>
        offline == op.cmds[1].Type = "CmdLive" /\ ~realtime
    IN (IsModeVerb(op) /\ (atRoot \/ offline)) =>
          /\ op.shown = IF atRoot THEN << <<"N", "o", "t", " ", "i", "n", " ", "a", " ", "c", "h", "a", "n", "n", "e", "l", ".">> >>
                        ELSE << <<"R", "e", "a", "l", "-", "t", "i", "m", "e", " ", "c", "o", "n", "n", "e", "c", "t", "i", "o", "n", " ", "n", "o", "t", " ", "a", "v", "a", "i", "l", "a", "b", "l", "e", ".">> >>
          /\ ~liveMode /\ ~browseMode
          /\ executor = op.before
          /\ live = NewLiveModel /\ tasks = <<>>
          /\ phase = "run"
          /\ prompt = <<>>
          /\ ENABLED ModeEnter

\* live entered inside a conversation without a real-time client
C26_Witness ==
    /\ IsModeVerb(op)
    /\ op.cmds[1].Type = "CmdLive"
    /\ op.before.currentChannel # <<>>
    /\ ~realtime
    /\ ~liveMode

\* browse entered at root
BrowseAtRootReached ==
    /\ IsModeVerb(op)
    /\ op.cmds[1].Type = "CmdBrowse"
    /\ op.before.currentChannel = <<>>
    /\ ~browseMode

\* live entered inside a conversation with a real-time client: the view opens
LiveOpenedReached ==
    /\ IsModeVerb(op)
    /\ op.cmds[1].Type = "CmdLive"
    /\ liveMode

(***************************************************************************)
(* Properties of the live view opened from the prompt                      *)
(***************************************************************************)

\* How many of the conditions hold
HowMany(conditions) == Cardinality({i \in 1..Len(conditions) : conditions[i]})

\* At most one of peek, notification panel, compose input and delete confirmation
\* is active in the view
OneOverlay(m) ==
    HowMany(<<m.peekMode, m.showNotifyPanel, m.inputMode # "InputModeNone",
              m.deleteConfirm>>) <= 1

PanelSelects(m, key) ==
    /\ m.showNotifyPanel
    /\ \/ key = "enter" /\ m.notifyPanelIndex < Len(m.notifications)
       \/ key = "1" /\ 0 < Len(m.notifications)

\* The conversation of the entry the key selects
PanelEntry(m, key) ==
    m.notifications[(IF key = "enter" THEN m.notifyPanelIndex ELSE 0) + 1].ChannelID

OlderOutstanding ==
    {i \in 1..Len(tasks) : tasks[i].kind = "older" /\ tasks[i].view = live.view}

\* The result handled by the step was scheduled for another conversation than the
\* one in view, or for a thread that is not the open one.
StaleResult ==
    /\ liveMode
    /\ op'.name = "Result"
    /\ \/ op'.kind \in {"load", "older"} /\ op'.channel # live.channelID
       \/ op'.kind = "thread"
          /\ (op'.channel # live.channelID \/ op'.ts # live.threadTS)

\* C29: the result of a command is applied only if it targets the conversation or
\* the thread in view; a result scheduled for a conversation or a thread that is
\* no longer the one in view is dropped and changes nothing of the view.
C29_Original == [][StaleResult => live' = live]_vars

\* C30: at most one fetch of an older page is outstanding for the view that is
\* open, at any time: loadingOlder stays true from the scheduling of a fetch until
\* the result of that fetch is handled, so no second one is scheduled in between.
C30_Original == liveMode => Cardinality(OlderOutstanding) <= 1

(***************************************************************************)
(* Threads and replies                                                     *)
(***************************************************************************)

\* Model.Update on a KeyMsg while the live view is open and ShouldExit says no:
\* LiveModel.Update handles the key, the keys of the thread view and the keys that
\* open a thread or a reply included, and its commands are scheduled.  The user
\* presses the keys of keys and types only the characters of runes into the compose
\* buffer, up to limit of them, with at most flight commands under way.
ThreadKeyMsg(keys, runes, limit, flight) ==
    \E key \in keys :
        LET ret == UpdateKeyMsg(live, key)
        IN /\ ~ShouldExit(live, key)
           /\ Composing(live) => key \in NamedKeys \cup runes
           /\ Len(live.inputText) < limit \/ key \in NamedKeys
              \/ live.inputMode = "InputModeNone"
           /\ Len(tasks) + Len(ret.cmd) <= flight
           /\ live' = ret.m
           /\ tasks' = Overtaken(tasks) \o ret.cmd
           /\ peeked' = IF ~live.peekMode /\ ret.m.peekMode THEN Entered(live)
                       ELSE Noted(ret.m, TRUE)
           /\ op' = [name |-> "KeyMsg", key |-> key,
                     scheduled |-> [i \in 1..Len(ret.cmd) |-> ret.cmd[i].kind]]
           /\ UNCHANGED <<server, stream, prompt, cacheState, notifyVars>>

\* The live view once both commands of LiveModel.Init have come back: the first
\* page is on screen, its newest message selected, and the members are known
InitThread ==
    /\ live = LiveMessagesLoaded(
                  LiveMembersLoaded(NewLiveModel,
                                    [Err |-> FALSE, Members |-> ChannelMembers,
                                     UserNames |-> UserNames]),
                  [Err |-> FALSE]
                      @@ GetMessagesWithPagination(InitHistory, PageLimit, 0))
    /\ server = InitServer
    /\ stream = <<>>
    /\ tasks = <<>>
    /\ peeked = NoEntry
    /\ prompt = <<>>
    /\ op = [name |-> "NewLiveModel"]
    /\ ShellAside

\* The keys pressed around a thread: moving up the list, opening the thread of the
\* selected message, replying, typing one character, sending, closing.
ThreadKeys == {"up", "enter", "r", "esc", "a"}

\* The event loop with the live view open while threads are opened and replied to.
NextThread ==
    \/ TaskRun
    \/ TaskDeliver
    \/ ThreadKeyMsg(ThreadKeys, {"a"}, 1, MaxTasks)

SpecThread == InitThread /\ [][NextThread]_vars

\* The root of the thread on screen: the timestamp of the first message of the
\* thread view, 0 with no thread on screen.
ThreadShown(m) ==
    IF m.threadVisible /\ m.threadMessages # <<>>
    THEN m.threadMessages[1].Timestamp
    ELSE 0

\* The timestamp of the message selected in the list, 0 with none.
SelectedTs(m) ==
    IF m.selectedIndex < Len(m.messages) THEN m.messages[m.selectedIndex + 1].Timestamp
    ELSE 0

\* The key opens the compose buffer for a reply from the thread view.
ReplyInThread(m, key) ==
    /\ key = "r"
    /\ ~m.peekMode /\ ~m.showNotifyPanel
    /\ m.inputMode = "InputModeNone" /\ ~m.deleteConfirm
    /\ m.threadVisible
    /\ m.threadTS # 0

\* C31: a reply composed in the thread view is addressed to the root timestamp of
\* the thread on screen, under any interleaving of keys and thread results: the
\* thread displayed and the thread the reply is addressed to never differ.
C31_Original ==
    [][(op'.name = "KeyMsg" /\ ReplyInThread(live, op'.key))
          => live'.threadTS = ThreadShown(live)]_vars

\* The reply that is sent goes to the thread the compose buffer was opened for
C31_SentAsAddressed ==
    [][(op'.name = "KeyMsg" /\ op'.scheduled = <<"reply">>)
          => tasks'[Len(tasks')].ts = live.threadTS]_vars

\* The reply opened with r in the list is addressed to the message selected then
C31_FromList ==
    [][(/\ op'.name = "KeyMsg" /\ op'.key = "r"
        /\ ~live.threadVisible /\ live.inputMode = "InputModeNone"
        /\ live'.inputMode = "InputModeReply")
          => live'.threadTS = SelectedTs(live)]_vars

(***************************************************************************)
(* The user-name map and the goroutines of the loads                       *)
(***************************************************************************)

\* The names users.info gives for the authors of the messages of the channel.
AuthorNames ==
    [id \in {"U2", CurrentUserID} |->
        IF id = "U2" THEN <<"a", "l", "i", "c", "e">> ELSE <<"m", "e">>]

\* Model.startLiveMode: NewLiveModel and the two commands of LiveModel.Init, the
\* load of the first page and the load of the members, both under way
InitNames ==
    /\ live = NewLiveModel
    /\ server = InitServer
    /\ stream = <<>>
    /\ tasks = <<Task("load", 0, <<>>), Task("members", 0, <<>>)>>
    /\ peeked = NoEntry
    /\ prompt = <<>>
    /\ op = [name |-> "NewLiveModel"]
    /\ ShellAside

\* The keys pressed in the list while it loads: moving up, which fetches an older
\* page at the top, and reloading.
NamesKeys == {"up", "R"}

\* The event loop hands a result to the view while the process runs.
NamesDeliver == phase = "run" /\ TaskDeliver

\* The event loop handles a key while the process runs.
NamesKeyMsg == phase = "run" /\ KeyMsg(NamesKeys, {}, MaxEdit, MaxTasks)

\* The event loop with the live view open, and the goroutines of its commands
\* with users.info answering.
NextNames ==
    \/ phase = "run" /\ TaskCall(AuthorNames)
    \/ NamesDeliver
    \/ NamesKeyMsg

SpecNames == InitNames /\ [][NextNames]_vars

\* C32: the state of the session, the user-name map included, is changed only by
\* the event loop while it handles an event: a step of the goroutine of a load
\* leaves the LiveModel as it is and the process running.
C32_Original ==
    [][op'.name = "TaskRun" => (live' = live /\ phase' = phase)]_vars

\* The goroutine of a load has written a name into the map of the model
C32_WrittenByTask ==
    /\ op.name = "TaskRun"
    /\ op.kind \in {"load", "older"}
    /\ DOMAIN live.userCache # {}
    /\ ~live.membersLoaded

\* The runtime has stopped the process on the map used from both sides
C32_Fatal == phase = "fatal"

(***************************************************************************)
(* Properties of the realtime messages, the results and the selection      *)
(***************************************************************************)

\* No timestamp occurs twice in messages.
DistinctTimestamps(messages) ==
    \A i, j \in 1..Len(messages) :
        i # j => messages[i].Timestamp # messages[j].Timestamp

\* C33: the client de-duplicates the realtime delivery: a message-received event
\* whose timestamp is already in the loaded window (a message already returned by a
\* load or reload) adds no second entry, so no timestamp ever appears twice in the
\* window of the conversation.
C33_Original == DistinctTimestamps(live.messages)

\* The keys pressed by a user who writes a message, reloads the list and deletes
\* a message of their own.
SentKeys == {"i", "a", "enter", "R", "d", "y"}

\* The event loop with the live view open while the user sends, reloads and
\* deletes: the message sent comes back as a realtime event of the channel.
NextSent ==
    \/ TaskRun
    \/ TaskDeliver
    \/ LiveIncomingMessageMsg
    \/ KeyMsg(SentKeys, {"a"}, 1, StreamTasks)

SpecSent == InitThread /\ [][NextSent]_vars

\* The step is Model.Update handing the result of the i-th task to the live view.
Delivered(i) ==
    /\ tasks[i].done
    /\ op'.name = ResultName(tasks[i].kind)
    /\ live' = UpdateResult(live, tasks[i])
    /\ tasks' = Overtaken(Without(tasks, i)) \o ResultCmd(live, tasks[i])

\* messages without the entries of timestamp ts, the others in their order
WithoutTs(messages, ts) ==
    LET Other(msg) == msg.Timestamp # ts
    IN SelectSeq(messages, Other)

\* after differs from before in nothing but the text of entries of timestamp ts
OnlyTextOf(before, after, ts) ==
    /\ Len(after) = Len(before)
    /\ \A k \in 1..Len(before) :
          IF before[k].Timestamp = ts
          THEN [after[k] EXCEPT !.Text = before[k].Text] = before[k]
          ELSE after[k] = before[k]

\* C34: after a successful delete result for timestamp t the window holds no
\* message of timestamp t and every other message in its order; after a successful
\* edit result only the text of the message of timestamp t has changed; a failed
\* delete or edit leaves the window as it was (the error it records, loadingErr, is
\* read by the renderer only); none of them schedules a reload.
C34_Original ==
    [][\A i \in 1..Len(tasks) :
          (Delivered(i) /\ tasks[i].kind \in {"delete", "edit"}) =>
             /\ Len(tasks') = Len(tasks) - 1
             /\ IF tasks[i].Err
                THEN live'.messages = live.messages
                ELSE IF tasks[i].kind = "delete"
                THEN live'.messages = WithoutTs(live.messages, tasks[i].ts)
                ELSE OnlyTextOf(live.messages, live'.messages, tasks[i].ts)]_vars

\* C34, for a timestamp the window holds once at most
C34_OnceInWindow ==
    [][\A i \in 1..Len(tasks) :
          (/\ Delivered(i) /\ tasks[i].kind \in {"delete", "edit"}
           /\ DistinctTimestamps(live.messages)) =>
             /\ Len(tasks') = Len(tasks) - 1
             /\ IF tasks[i].Err
                THEN live'.messages = live.messages
                ELSE IF tasks[i].kind = "delete"
                THEN live'.messages = WithoutTs(live.messages, tasks[i].ts)
                ELSE OnlyTextOf(live.messages, live'.messages, tasks[i].ts)]_vars

\* The fetches of the member list that are under way or whose result waits.
MemberFetches == {i \in 1..Len(tasks) : tasks[i].kind = "members"}

\* C35: the member list is fetched lazily and once: no fetch of it is scheduled
\* before the first @ is typed or the first completion is asked for, and at most
\* one is scheduled for a view, however many keys are typed while the first is
\* under way.
C35_Original ==
    /\ op.name = "NewLiveModel" => MemberFetches = {}
    /\ Cardinality(MemberFetches) <= 1

\* C35, its second half: at most one fetch of the member list at a time
C35_Once == Cardinality(MemberFetches) <= 1

\* Once the member list is loaded no key schedules a fetch of it
C35_NoneOnceLoaded ==
    [][(op'.name = "KeyMsg" /\ live.membersLoaded) =>
          Cardinality(MemberFetches') <= Cardinality(MemberFetches)]_vars

\* The keys that open the notification panel, select its entry and leave the panel
\* or the peek.
SuspendKeys == {"n", "enter", "esc"}

\* The event loop with the live view open, its first page loaded, while messages
\* arrive in its channel and in another one and the user looks at the panel and
\* peeks: during the panel and the peek only realtime messages reach the window
\* of the channel.
NextSuspend ==
    \/ Post(MaxStreamTs)
    \/ PostOther
    \/ TaskRun
    \/ TaskDeliver
    \/ LiveIncomingMessageMsg
    \/ KeyMsg(SuspendKeys, {}, MaxEdit, MaxTasks)

SpecSuspend == InitThread /\ [][NextSuspend]_vars

\* The step closes the notification panel without entering a peek.
ClosesPanel == live.showNotifyPanel /\ ~live'.showNotifyPanel /\ ~live'.peekMode

\* Every message of before is in after.
Retained(before, after) ==
    \A k \in 1..Len(before) :
        \E j \in 1..Len(after) : after[j].Timestamp = before[k].Timestamp

C36_Panel ==
    [][ClosesPanel => Retained(live.messages, live'.messages)]_vars

(***************************************************************************)
(* Properties of a pipeline that ends in a composition error               *)
(***************************************************************************)

\* C37: a pipeline that ends in a composition error has no effect: the current
\* location and the cached lists are as they were before the pipeline was run and
\* nothing has been posted (cd #x | ls does not change the location, send hi | ls
\* posts no message).
C37_Original ==
    \A f \in StageForms :
        (StageEntered(f) /\ op.result.Error = "cannot pipe") =>
           /\ executor = op.before
           /\ op.posted = <<>>

\* cd #dev | ls was executed at the root: the composition error was returned and
\* the session is in #dev
C37_CdMoved ==
    /\ StageEntered([producer |-> <<"c", "d", " ", "#", "d", "e", "v">>, stage |-> <<"l", "s">>, grep |-> FALSE])
    /\ op.result.Error = "cannot pipe"
    /\ op.before.currentChannel = <<>>
    /\ executor.currentChannel # <<>>

\* send hi | ls was executed in a channel: the composition error was returned and
\* hi was posted
C37_SendPosted ==
    /\ StageEntered([producer |-> <<"s", "e", "n", "d", " ", "h", "i">>, stage |-> <<"l", "s">>, grep |-> FALSE])
    /\ op.result.Error = "cannot pipe"
    /\ op.posted = << <<"h", "i">> >>
    /\ op.apiOk.post

\* C38: the delete request issued on y targets the message that was selected, and
\* checked to be the user's own, when d opened the confirmation, whatever realtime
\* messages and results of older pages, reloads and deletes are handled in between:
\* every event handled while the confirmation is open leaves the selected message,
\* the one y will name, as it was.
C38_Original ==
    [][(live.deleteConfirm /\ live'.deleteConfirm) =>
          SelectedTs(live') = SelectedTs(live)]_vars

\* The request scheduled on y names the message selected when y is pressed
C38_TargetsSelected ==
    [][(op'.name = "KeyMsg" /\ live.deleteConfirm /\ Len(tasks') > Len(tasks)) =>
          /\ tasks'[Len(tasks')].kind = "delete"
          /\ tasks'[Len(tasks')].ts = SelectedTs(live)]_vars

\* The confirmation is open on a message that is not the user's own
C38_OthersMessage ==
    /\ live.deleteConfirm
    /\ live.selectedIndex < Len(live.messages)
    /\ live.messages[live.selectedIndex + 1].User # CurrentUserID

\* The author of the newest message of the channel deletes it on Slack from
\* another client: no event of the deletion reaches the live view.
Retract ==
    /\ server.history # <<>>
    /\ server' = [server EXCEPT !.history = SubSeq(@, 1, Len(@) - 1)]
    /\ op' = [name |-> "Retract"]
    /\ UNCHANGED <<live, stream, tasks, peeked, prompt, cacheState, notifyVars>>

\* The keys pressed in the list while the channel shrinks: reloading, moving up,
\* deleting.
ShrinkKeys == {"R", "up", "d", "y"}

\* The event loop with the live view open, its first page loaded, while messages
\* of the channel are deleted elsewhere and new ones are posted.
NextShrink ==
    \/ Retract
    \/ Post(MaxTs)
    \/ TaskRun
    \/ TaskDeliver
    \/ LiveIncomingMessageMsg
    \/ KeyMsg(ShrinkKeys, {}, MaxEdit, StreamTasks)

SpecShrink == InitThread /\ [][NextShrink]_vars

\* The selection of the list is on one of its messages, if it has any.
SelectionInWindow(m) ==
    Len(m.messages) > 0 => m.selectedIndex >= 0 /\ m.selectedIndex < Len(m.messages)

\* The selection of the peeked list is on one of its messages, if it has any.
PeekSelectionInWindow(m) ==
    Len(m.peekMessages) > 0 =>
        m.peekSelectedIndex >= 0 /\ m.peekSelectedIndex < Len(m.peekMessages)

\* C39: in every reachable state of the live view with a non-empty window
\* 0 <= selectedIndex < len(messages), and likewise peekSelectedIndex for the
\* window of the peek, after any sequence of loads, reloads that return fewer or no
\* messages, older pages, realtime appends, deletes and entering and leaving a peek.
C39_Original == SelectionInWindow(live) /\ PeekSelectionInWindow(live)

(***************************************************************************)
(* The loading flag of older pages                                         *)
(***************************************************************************)

\* The keys pressed by a user who writes a message, reloads the list, deletes
\* messages of their own and moves up past the oldest message loaded.
DrainKeys == {"i", "a", "enter", "R", "d", "y", "up"}

\* The event loop with the live view open while the user sends, reloads, deletes
\* and asks for older pages.
NextDrain ==
    \/ TaskRun
    \/ TaskDeliver
    \/ LiveIncomingMessageMsg
    \/ KeyMsg(DrainKeys, {"a"}, 1, StreamTasks)

SpecDrain == InitThread /\ [][NextDrain]_vars

\* A fetch of an older page is in flight: its command runs or has returned a
\* result that the event loop has yet to hand to the view.
OlderInFlight == \E i \in 1..Len(tasks) : tasks[i].kind = "older"

C40_Blocked ==
    [][(live.loadingOlder /\ ~OlderInFlight) => live'.loadingOlder]_vars

\* Over a window that has a message the key that sets the flag schedules the
\* fetch in the same step.
C40_SetWithFetch ==
    [][(~live.loadingOlder /\ live'.loadingOlder /\ live.messages # <<>>)
          => \E i \in 1..Len(tasks') : tasks'[i].kind = "older"]_vars

\* The flag is set over a window with a message and its fetch is in flight.
C40_Fetching == ~(live.loadingOlder /\ OlderInFlight /\ live.messages # <<>>)

====
